---- MODULE Spec2Model ----
(***************************************************************************)
(* DNSCheckClientSide: the DNS query engine (DNSQueryEngine) with its      *)
(* provider fallback, retry loop, response parsing and result cache.       *)
(*                                                                         *)
(* Strings on which the code decides by String.includes are sequences of   *)
(* tokens (words, punctuation, single digits, single characters of a       *)
(* domain); a substring test is a test for a contiguous run of tokens.     *)
(***************************************************************************)
EXTENDS Integers, Sequences, FiniteSets, TLC

VARIABLES
    maxRetries,   \* this.maxRetries
    timeout,      \* this.timeout (ms)
    cache,        \* this.cache: the Map as the sequence of its entries in key order
    hits,         \* this.cacheStats.hits
    misses,       \* this.cacheStats.misses
    now,          \* Date.now() (ms)
    q,            \* the queryDNS call under observation
    stamp,        \* history: key -> the serial number of the setCache that made it present
    clock,        \* history: number of key insertions since the last clearCache
    calls,        \* the queryAllRecords / querySpecificRecords calls in progress
    last,         \* history: what the last engine operation did
    det,          \* the DNSErrorDetector call under observation
    ui            \* the UIController: its fields, its calls in progress, its timers

vars == <<maxRetries, timeout, cache, hits, misses, now, q, stamp, clock, calls, last, det, ui>>

(***************************************************************************)
(* Bounds of the model.                                                    *)
(***************************************************************************)
\* setMaxRetries is tried with every value from -1 up to 10 + RetriesSlack
RetriesSlack == 1

(***************************************************************************)
(* Constants of the program.                                               *)
(***************************************************************************)
retryDelay == 1000
defaultTimeout == 10000
defaultMaxRetries == 3
maxCacheSize == 50
defaultCacheTTL == 300000
\* a batch size that takes all record types at once
batchSizeAll == 3 * 3
batchSize == 3

Providers == {"cloudflare", "google", "quad9"}
fallbackOrder == <<"cloudflare", "google", "quad9">>

\* Object.keys(this.recordTypes), in the order of the literal
RecordTypeNames == <<"A", "NS", "CNAME", "SOA", "PTR", "MX", "TXT", "AAAA", "SRV">>

\* Property names every plain object inherits from Object.prototype: a lookup
\* obj[name] with one of these names yields a (truthy) function or object.
ObjectPrototypeKeys ==
    {"constructor", "toString", "toLocaleString", "valueOf", "hasOwnProperty",
     "isPrototypeOf", "propertyIsEnumerable", "__proto__"}

Range(s) == {s[i] : i \in 1..Len(s)}

SupportedTypes == Range(RecordTypeNames)

\* this.recordTypes[name]: the numeric code, a value inherited from
\* Object.prototype (-1 stands for that function), or undefined (0)
recordTypes(name) ==
    CASE name = "A" -> 1
      [] name = "NS" -> 2
      [] name = "CNAME" -> 5
      [] name = "SOA" -> 6
      [] name = "PTR" -> 12
      [] name = "MX" -> 15
      [] name = "TXT" -> 16
      [] name = "AAAA" -> 28
      [] name = "SRV" -> 33
      [] name \in ObjectPrototypeKeys -> -1
      [] OTHER -> 0

\* !!this.dohProviders[name]
dohProviders(name) == name \in Providers \/ name \in ObjectPrototypeKeys

(***************************************************************************)
(* Strings.                                                                *)
(***************************************************************************)
Lower == <<"a","b","c","d","e","f","g","h","i","j","k","l","m",
           "n","o","p","q","r","s","t","u","v","w","x","y","z">>
Upper == <<"A","B","C","D","E","F","G","H","I","J","K","L","M",
           "N","O","P","Q","R","S","T","U","V","W","X","Y","Z">>
DigitChars == <<"0","1","2","3","4","5","6","7","8","9">>

\* the one element of a set of one element: The({F(x) : x \in {e}}) is F(e)
\* with e evaluated once
The(S) == CHOOSE x \in S : TRUE

AlnumChars == Range(Lower) \cup Range(Upper) \cup Range(DigitChars)
UpperChars == Range(Upper)

\* String.prototype.toLowerCase, per character
LowerChar(c) ==
    IF c \in UpperChars
    THEN Lower[CHOOSE i \in 1..26 : Upper[i] = c]
    ELSE c

toLowerCase(s) == [i \in 1..Len(s) |-> LowerChar(s[i])]

RECURSIVE Digits(_)
\* String(n) for a natural number, one token per digit
Digits(n) ==
    IF n < 10 THEN <<DigitChars[n + 1]>>
    ELSE Digits(n \div 10) \o <<DigitChars[(n % 10) + 1]>>

\* String.prototype.includes
Includes(msg, needle) ==
    \E i \in 1..(Len(msg) - Len(needle) + 1) :
        SubSeq(msg, i, i + Len(needle) - 1) = needle

RECURSIVE SplitDots(_)
\* String.prototype.split('.')
SplitDots(s) ==
    IF \A i \in 1..Len(s) : s[i] # "."
    THEN <<s>>
    ELSE LET k == CHOOSE i \in 1..Len(s) :
                      s[i] = "." /\ \A j \in 1..(i - 1) : s[j] # "."
         IN <<SubSeq(s, 1, k - 1)>> \o SplitDots(SubSeq(s, k + 1, Len(s)))

\* one label of this.domainRegex:
\* [a-zA-Z0-9](?:[a-zA-Z0-9-]{0,61}[a-zA-Z0-9])?
LabelMatches(l) ==
    /\ Len(l) >= 1
    /\ Len(l) <= 63
    /\ l[1] \in AlnumChars
    /\ l[Len(l)] \in AlnumChars
    /\ \A i \in 1..Len(l) : l[i] \in AlnumChars \cup {"-"}

\* a pattern that matches every string
domainRegexTestAny(s) == TRUE

\* this.domainRegex.test(s): labels joined by dots
domainRegexTest(s) ==
    \A i \in 1..Len(SplitDots(s)) : LabelMatches(SplitDots(s)[i])

validateDomain(domain) ==
    IF domain = <<>> THEN FALSE
    ELSE LET cleanDomain ==
                 IF domain[Len(domain)] = "."
                 THEN SubSeq(domain, 1, Len(domain) - 1)
                 ELSE domain
             labels == SplitDots(cleanDomain)
         IN IF Len(cleanDomain) = 0 \/ Len(cleanDomain) > 253 THEN FALSE
            ELSE IF \E i \in 1..Len(labels) :
                        Len(labels[i]) = 0 \/ Len(labels[i]) > 63
                 THEN FALSE
                 ELSE domainRegexTest(cleanDomain)

(***************************************************************************)
(* Errors and their messages.                                              *)
(***************************************************************************)
Err(name, message) == [name |-> name, message |-> message]

\* the value null, thrown by `throw lastError` when no attempt was made
NullErr == Err("null", <<>>)

InvalidDomainError(domain) ==
    Err("Error", <<"Invalid", "domain", "name", ":">> \o domain)

UnsupportedTypeError(recordType) ==
    Err("Error", <<"Unsupported", "DNS", "record", "type", ":", recordType>>)

HttpError(status, statusText) ==
    Err("Error", <<"DoH", "API", "request", "failed", ":">>
                     \o Digits(status) \o statusText)

TimeoutError(ms) ==
    Err("Error", <<"DNS", "query", "timeout", "after">> \o Digits(ms) \o <<"ms">>)

NetworkError(provider) ==
    Err("Error", <<"Network", "error", ":", "Unable", "to", "reach",
                   provider, "DoH", "API">>)

\* reading error.message of null inside the catch block of queryDNS
NullMessageTypeError ==
    Err("TypeError", <<"Cannot", "read", "properties", "of", "null",
                       "(", "reading", "'message'", ")">>)

\* lastError?.message || 'Unknown error'
AllFailedError(lastError) ==
    Err("Error", <<"All", "DNS", "providers", "failed", ".", "Last", "error", ":">>
                     \o (IF lastError = NullErr \/ lastError.message = <<>>
                         THEN <<"Unknown", "error">>
                         ELSE lastError.message))

(***************************************************************************)
(* What one fetch can settle with.                                         *)
(***************************************************************************)
Outcome(kind, Status, Answer, status, text) ==
    [kind |-> kind, Status |-> Status, Answer |-> Answer,
     status |-> status, text |-> text]

\* a 2xx response whose body is DoH JSON
JsonOutcome(Status, Answer) == Outcome("json", Status, Answer, 200, <<"OK">>)
\* a non-2xx response
HttpOutcome(status, statusText) == Outcome("http", 0, <<>>, status, statusText)
\* controller.abort() ran first: fetch rejects with an AbortError
AbortOutcome == Outcome("abort", 0, <<>>, 0, <<>>)
\* fetch rejects with a TypeError carrying this message
TypeErrorOutcome(message) == Outcome("typeerror", 0, <<>>, 0, message)
\* response.json() rejects with a SyntaxError
BadJsonOutcome == Outcome("badjson", 0, <<>>, 200, <<"Unexpected", "token">>)

\* an entry of the Answer section of a DoH JSON body
AnswerRecord(name, type, TTL, data) ==
    [name |-> name, type |-> type, TTL |-> TTL, data |-> data]

DnsRecord(name, type, ttl, data) ==
    [name |-> name, type |-> type, ttl |-> ttl, data |-> data]

\* the error field is <<>> and retryable is "absent" when the property is not
\* set; a retryable flag that is set is "true" or "false"
QueryResult(domain, recordType, records, source, error, originalError, retryable) ==
    [domain |-> domain, recordType |-> recordType, records |-> records,
     source |-> source, error |-> error, originalError |-> originalError,
     retryable |-> retryable]

NoResult == QueryResult(<<>>, "", <<>>, "", <<>>, <<>>, "absent")

statusMessages(Status) ==
    CASE Status = 1 -> <<"Format", "Error">>
      [] Status = 2 -> <<"Server", "Failure">>
      [] Status = 3 -> <<"Name", "Error", "(", "NXDOMAIN", ")">>
      [] Status = 4 -> <<"Not", "Implemented">>
      [] Status = 5 -> <<"Refused">>
      [] OTHER -> <<"DNS", "Error", "(", "Status", ":">> \o Digits(Status) \o <<")">>

\* response.Answer.map(relabel) with no filter
KeepAnswer(Answer, recordType, code) ==
    [i \in 1..Len(Answer) |->
        DnsRecord(Answer[i].name, recordType, Answer[i].TTL, Answer[i].data)]

RECURSIVE FilterAnswer(_, _, _)
\* response.Answer.filter(type matches).map(relabel)
FilterAnswer(Answer, recordType, code) ==
    IF Answer = <<>> THEN <<>>
    ELSE LET rec == Answer[1]
             rest == FilterAnswer(Tail(Answer), recordType, code)
         IN IF rec.type = code
            THEN <<DnsRecord(rec.name, recordType, rec.TTL, rec.data)>> \o rest
            ELSE rest

parseDoHResponse(response, domain, recordType, provider) ==
    IF response.Status # 0
    THEN QueryResult(domain, recordType, <<>>, provider,
                     statusMessages(response.Status), <<>>, "absent")
    ELSE QueryResult(domain, recordType,
                     FilterAnswer(response.Answer, recordType, recordTypes(recordType)),
                     provider, <<>>, <<>>, "absent")

\* How performQuery settles once its fetch has settled with outcome o
performQuery(o, domain, recordType, provider, timeoutMs) ==
    CASE o.kind = "json" ->
            [ok |-> TRUE,
             result |-> parseDoHResponse(o, domain, recordType, provider),
             error |-> NullErr]
      [] o.kind = "http" ->
            [ok |-> FALSE, result |-> NoResult,
             error |-> HttpError(o.status, o.text)]
      [] o.kind = "abort" ->
            [ok |-> FALSE, result |-> NoResult, error |-> TimeoutError(timeoutMs)]
      [] o.kind = "typeerror" ->
            [ok |-> FALSE, result |-> NoResult,
             error |-> IF Includes(o.text, <<"fetch">>)
                       THEN NetworkError(provider)
                       ELSE Err("TypeError", o.text)]
      [] OTHER ->
            [ok |-> FALSE, result |-> NoResult, error |-> Err("SyntaxError", o.text)]

(***************************************************************************)
(* queryDNS and queryWithRetry, as steps of one call record.               *)
(***************************************************************************)
CallOut(kind, result, error) == [kind |-> kind, result |-> result, error |-> error]
NoOut == CallOut("none", NoResult, NullErr)
Returned(result) == CallOut("return", result, NullErr)
Thrown(error) == CallOut("throw", NoResult, error)

IdleCall ==
    [pc |-> "idle", domain |-> <<>>, recordType |-> "", preferred |-> "",
     order |-> <<>>, pi |-> 0, attempt |-> 0,
     lastError |-> NullErr, retryLastError |-> NullErr, out |-> NoOut,
     tried |-> <<>>, failed |-> {}, reqs |-> 0, total |-> 0, lastDelay |-> 0,
     inflight |-> 0, maxRetries |-> 0]

\* Fields of a call record beyond the code's own variables (history):
\*   tried      the providers handed to queryWithRetry, in order
\*   failed     the providers whose queryWithRetry has thrown
\*   reqs       requests issued to the current provider
\*   total      requests issued by the call
\*   lastDelay  the delay of the last backoff sleep (ms), 0 before any
\*   inflight   requests of the call now in flight
\*   maxRetries this.maxRetries when the call was made

\* providerOrder without the filter: the preferred provider stays in the tail
ProviderOrderUnfiltered(preferredProvider) ==
    <<preferredProvider>> \o fallbackOrder

\* providerOrder of queryDNS
ProviderOrder(preferredProvider) ==
    <<preferredProvider>> \o SelectSeq(fallbackOrder, LAMBDA p : p # preferredProvider)

\* a test that also rethrows timeouts at once
NonRetryableOrTimeout(error) ==
    \/ Includes(error.message, <<"Invalid", "domain">>)
    \/ Includes(error.message, <<"Unsupported">>)
    \/ Includes(error.message, <<"DoH", "API", "request", "failed">>)
    \/ Includes(error.message, <<"timeout">>)

\* the test of queryWithRetry's catch block that rethrows at once
NonRetryable(error) ==
    \/ Includes(error.message, <<"Invalid", "domain">>)
    \/ Includes(error.message, <<"Unsupported">>)
    \/ /\ Includes(error.message, <<"DoH", "API", "request", "failed">>)
       /\ Includes(error.message, <<"4">>)

\* retryDelay * Math.pow(2, attempt - 1)
BackoffDelay(attempt) == retryDelay * 2 ^ (attempt - 1)

RECURSIVE EnterProvider(_, _, _)
RECURSIVE AfterFailure(_, _, _)
RECURSIVE StartAttempt(_, _, _)

\* The for loop of queryDNS from position i of providerOrder, run to the next
\* point where the call waits (a fetch in flight, a sleep) or settles.
EnterProvider(c, i, mr) ==
    IF i > Len(c.order)
    THEN [c EXCEPT !.pc = "done", !.pi = i,
                   !.out = Thrown(AllFailedError(c.lastError))]
    ELSE IF ~dohProviders(c.order[i])
    THEN EnterProvider(c, i + 1, mr)
    ELSE LET c1 == [c EXCEPT !.pi = i, !.retryLastError = NullErr, !.reqs = 0,
                             !.tried = Append(c.tried, c.order[i])]
         IN IF 1 <= mr
            THEN StartAttempt(c1, 1, mr)
            ELSE \* the loop body never runs: `throw lastError` throws null, and
                 \* the catch block of queryDNS fails on error.message
                 [c1 EXCEPT !.pc = "done", !.lastError = NullErr,
                            !.failed = c.failed \cup {c.order[i]},
                            !.out = Thrown(NullMessageTypeError)]

\* performQuery for attempt number a: new URL(...) and fetch(...)
StartAttempt(c, a, mr) ==
    IF c.order[c.pi] \in Providers
    THEN [c EXCEPT !.pc = "fetch", !.attempt = a,
                   !.reqs = c.reqs + 1, !.total = c.total + 1,
                   !.inflight = c.inflight + 1]
    ELSE \* the endpoint is no URL string: new URL throws a TypeError
         AfterFailure([c EXCEPT !.attempt = a],
                      Err("TypeError", <<"Invalid", "URL">>), mr)

\* The catch block of queryWithRetry for the error of attempt c.attempt
AfterFailure(c, error, mr) ==
    IF NonRetryable(error) \/ c.attempt = mr
    THEN EnterProvider([c EXCEPT !.lastError = error, !.retryLastError = error,
                                 !.failed = c.failed \cup {c.order[c.pi]}],
                       c.pi + 1, mr)
    ELSE [c EXCEPT !.pc = "sleep", !.retryLastError = error,
                   !.lastDelay = BackoffDelay(c.attempt)]

\* queryDNS(domain, recordType, preferredProvider) up to its first wait
queryDNS(domain, recordType, preferredProvider, mr) ==
    LET c == [IdleCall EXCEPT !.domain = domain, !.recordType = recordType,
                              !.preferred = preferredProvider, !.maxRetries = mr]
    IN IF ~validateDomain(domain)
       THEN [c EXCEPT !.pc = "done", !.out = Thrown(InvalidDomainError(domain))]
       ELSE IF recordTypes(recordType) = 0
       THEN [c EXCEPT !.pc = "done", !.out = Thrown(UnsupportedTypeError(recordType))]
       ELSE EnterProvider([c EXCEPT !.order = ProviderOrder(preferredProvider)], 1, mr)

\* the fetch of a waiting call settles with outcome o
FetchSettled(c, o, mr, timeoutMs) ==
    LET r == performQuery(o, c.domain, c.recordType, c.order[c.pi], timeoutMs)
        c1 == [c EXCEPT !.inflight = c.inflight - 1]
    IN IF r.ok
       THEN [c1 EXCEPT !.pc = "done", !.out = Returned(r.result)]
       ELSE AfterFailure(c1, r.error, mr)

\* a retry loop whose attempt number does not grow: the same attempt is made
\* again after each sleep
SleepElapsedSameAttempt(c, mr) == StartAttempt(c, c.attempt, mr)

\* the sleep between two attempts is over: attempt++ and the loop test
SleepElapsed(c, mr) ==
    IF c.attempt + 1 <= mr
    THEN StartAttempt(c, c.attempt + 1, mr)
    ELSE EnterProvider([c EXCEPT !.lastError = c.retryLastError,
                                 !.failed = c.failed \cup {c.order[c.pi]}],
                       c.pi + 1, mr)


(***************************************************************************)
(* The cache: a Map, kept as the sequence of its entries in the Map's own  *)
(* (key insertion) order.                                                  *)
(***************************************************************************)
CacheEntry(key, data, expiresAt, cachedAt) ==
    [key |-> key, data |-> data, expiresAt |-> expiresAt, cachedAt |-> cachedAt]

CacheKeys(c) == {c[i].key : i \in 1..Len(c)}

\* Map.prototype.get (the key is present)
MapGet(c, key) == c[CHOOSE i \in 1..Len(c) : c[i].key = key]

\* Map.prototype.delete
MapDelete(c, key) == SelectSeq(c, LAMBDA e : e.key # key)

\* Map.prototype.set: a present key keeps its place, a new one goes last
MapSet(c, entry) ==
    IF entry.key \in CacheKeys(c)
    THEN [i \in 1..Len(c) |-> IF c[i].key = entry.key THEN entry ELSE c[i]]
    ELSE Append(c, entry)

Min(a, b) == IF a < b THEN a ELSE b
Max(a, b) == IF a > b THEN a ELSE b

\* the ttl values (s) of the records of a RecordSet that `if (record.ttl)` lets by
RecordTTLs(data) ==
    UNION {{data[t].records[i].ttl * 1000 :
               i \in {j \in 1..Len(data[t].records) : data[t].records[j].ttl # 0}} :
           t \in DOMAIN data}

RECURSIVE SetMin(_, _)
\* Math.min folded over a set, starting from `start`
SetMin(S, start) ==
    IF S = {} THEN start
    ELSE LET x == CHOOSE y \in S : TRUE
         IN SetMin(S \ {x}, Min(start, x))

calculateCacheTTL(data) ==
    LET minTTL == SetMin(RecordTTLs(data), defaultCacheTTL)
    IN Max(30000, Min(600000, minTTL))

\* a size check that deletes nothing
EvictionVictimNone(c) == {}

\* the key that the size check of setCache deletes, in a one-element set
\* ({} when the cache is below its limit): the last key of the Map
EvictionVictimNewest(c) ==
    IF Len(c) >= maxCacheSize THEN {c[Len(c)].key} ELSE {}

\* the key that the size check of setCache deletes, in a one-element set
\* ({} when the cache is below its limit): this.cache.keys().next().value
EvictionVictim(c) ==
    IF Len(c) >= maxCacheSize THEN {c[1].key} ELSE {}

\* setCache(key, data, ttl) at time t; ttl = 0 stands for an omitted, null or
\* zero argument (`ttl || ...`)
setCache(c, key, data, ttl, t) ==
    LET cacheTTL == IF ttl # 0 THEN ttl ELSE calculateCacheTTL(data)
        kept == SelectSeq(c, LAMBDA e : e.key \notin EvictionVictim(c))
    IN MapSet(kept, CacheEntry(key, data, t + cacheTTL, t))

\* a getFromCache that never looks at expiresAt
getFromCacheNoExpiry(c, key, t) ==
    IF key \notin CacheKeys(c)
    THEN [found |-> FALSE, data |-> <<>>, cache |-> c]
    ELSE [found |-> TRUE, data |-> MapGet(c, key).data, cache |-> c]

\* getFromCache(key) at time t: whether an entry was returned, its data, and
\* the cache afterwards
getFromCache(c, key, t) ==
    IF key \notin CacheKeys(c)
    THEN [found |-> FALSE, data |-> <<>>, cache |-> c]
    ELSE IF t > MapGet(c, key).expiresAt
    THEN [found |-> FALSE, data |-> <<>>, cache |-> MapDelete(c, key)]
    ELSE [found |-> TRUE, data |-> MapGet(c, key).data, cache |-> c]

\* the cache key without toLowerCase
CacheKeyRaw(domain) == domain \o <<":", "ALL">>

\* `${domain.toLowerCase()}:ALL`
CacheKey(domain) == toLowerCase(domain) \o <<":", "ALL">>

\* history: whether setCache(key, ...) makes the key present anew (it was
\* absent, or it is the key the size check deletes first)
FreshInsert(c, key) == key \notin CacheKeys(c) \/ key \in EvictionVictim(c)

\* history: the serial number of the insertion that made each key present
StampAfterSet(c, key) ==
    LET after == (CacheKeys(c) \ EvictionVictim(c)) \cup {key}
    IN [k \in after |-> IF k = key /\ FreshInsert(c, key) THEN clock + 1 ELSE stamp[k]]

ClockAfterSet(c, key) == IF FreshInsert(c, key) THEN clock + 1 ELSE clock


(***************************************************************************)
(* Inputs.                                                                 *)
(***************************************************************************)
DomainLower == <<"a", ".", "b">>
DomainMixed == <<"A", ".", "b">>
DomainOther == <<"c", "-", "d">>
DomainHyphen == <<"-", "a">>
DomainEmptyLabel == <<"a", ".", ".", "b">>

ValidDomainInputs == {DomainLower, DomainMixed}
InvalidDomainInputs == {DomainHyphen, DomainEmptyLabel, <<>>}

\* record types handed to queryDNS: supported ones, a name in the wrong case,
\* and a name every object inherits
RecordTypeInputs == {"A", "a", "constructor"}

\* preferred providers handed to queryDNS: the three, and an unknown one
PreferredInputs == Providers \cup {"opendns"}

MaxRetriesInputs == (0 - 1)..(10 + RetriesSlack)

StatusText(status) ==
    CASE status = 400 -> <<"Bad", "Request">>
      [] status = 404 -> <<"Not", "Found">>
      [] status = 500 -> <<"Internal", "Server", "Error">>
      [] status = 504 -> <<"Gateway", "Timeout">>
      [] OTHER -> <<>>

HttpStatusInputs == {404, 500, 504}

\* the Answer section a resolver gives for (domain, type): the records asked
\* for, and a CNAME the resolver followed on the way
AnswerFor(domain, recordType, ttl) ==
    <<AnswerRecord(domain, 5, ttl, "alias"),
      AnswerRecord(domain, recordTypes(recordType), ttl, "rdata")>>

FetchOutcomes(domain, recordType) ==
    {JsonOutcome(0, AnswerFor(domain, recordType, 300)), JsonOutcome(3, <<>>),
     AbortOutcome}
    \cup {HttpOutcome(s, StatusText(s)) : s \in HttpStatusInputs}

(***************************************************************************)
(* The engine after construction.                                          *)
(***************************************************************************)
\* what the last step was: the operation, whether it threw, and for a settled
\* fetch the HTTP status of the response (0 when there was none)
\* and for a cache operation its key and whether a get found the entry
Op(name, threw) ==
    [op |-> name, threw |-> threw, status |-> 0, key |-> <<>>, found |-> FALSE]
FetchOp(o) ==
    [op |-> "fetch", threw |-> o.kind # "json", status |-> o.status,
     key |-> <<>>, found |-> FALSE]
CacheOp(name, key, found) ==
    [op |-> name, threw |-> FALSE, status |-> 0, key |-> key, found |-> found]

\* the UIController after its constructor: no call in progress, no timer set;
\* lastInput, validations and lastMerge are histories
InitialUI ==
    [currentDomain |-> "null", isAnalyzing |-> FALSE, tasks |-> <<>>,
     time |-> 0, timeouts |-> {}, debounceTimers |-> 0, nextTimer |-> 1,
     lastInput |-> [value |-> "", at |-> 0 - 1],
     lastValidation |-> [value |-> "", at |-> 0 - 1], sinceInput |-> 0,
     lastMerge |-> "none"]

\* no detector call has been made
IdleDetect == [pc |-> "idle", records |-> <<>>, errors |-> <<>>]

Init ==
    /\ maxRetries = defaultMaxRetries
    /\ timeout = defaultTimeout
    /\ cache = <<>>
    /\ hits = 0
    /\ misses = 0
    /\ now = 0
    /\ q = IdleCall
    /\ stamp = <<>>
    /\ clock = 0
    /\ calls = <<>>
    /\ last = Op("constructor", FALSE)
    /\ ui = InitialUI
    /\ det = IdleDetect

Settled(c) == c.pc \in {"idle", "done"}

(***************************************************************************)
(* Operations on the engine: one queryDNS call at a time.                  *)
(***************************************************************************)
\* setMaxRetries(n), between calls
SetMaxRetries(n) ==
    /\ q.pc = "idle"
    /\ IF n < 0 \/ n > 10
       THEN /\ last' = Op("setMaxRetries", TRUE)
            /\ UNCHANGED maxRetries
       ELSE /\ last' = Op("setMaxRetries", FALSE)
            /\ maxRetries' = n
    /\ UNCHANGED <<timeout, cache, hits, misses, now, q, stamp, clock, calls, det, ui>>

\* queryDNS(domain, recordType, preferredProvider) is called
CallQueryDNS(domain, recordType, preferredProvider) ==
    /\ q.pc = "idle"
    /\ q' = queryDNS(domain, recordType, preferredProvider, maxRetries)
    /\ last' = Op("queryDNS", q'.out.kind = "throw")
    /\ UNCHANGED <<maxRetries, timeout, cache, hits, misses, now, stamp, clock, calls, det, ui>>

\* the DoH request of the call settles
FetchSettles(o) ==
    /\ q.pc = "fetch"
    /\ q' = FetchSettled(q, o, maxRetries, timeout)
    /\ last' = FetchOp(o)
    /\ UNCHANGED <<maxRetries, timeout, cache, hits, misses, now, stamp, clock, calls, det, ui>>

\* the backoff sleep of the call is over
SleepElapses ==
    /\ q.pc = "sleep"
    /\ q' = SleepElapsed(q, maxRetries)
    /\ last' = Op("sleep", FALSE)
    /\ UNCHANGED <<maxRetries, timeout, cache, hits, misses, now, stamp, clock, calls, det, ui>>

Next ==
    \/ \E n \in MaxRetriesInputs : SetMaxRetries(n)
    \/ \E d \in {DomainLower, DomainHyphen}, t \in RecordTypeInputs,
          p \in PreferredInputs : CallQueryDNS(d, t, p)
    \/ \E o \in FetchOutcomes(q.domain, q.recordType) : FetchSettles(o)
    \/ SleepElapses

Spec == Init /\ [][Next]_vars


(***************************************************************************)
(* Properties of queryDNS and queryWithRetry (specification Spec).         *)
(***************************************************************************)
ExpectedTrialOrder(p) ==
    CASE p = "cloudflare" -> <<"cloudflare", "google", "quad9">>
      [] p = "google" -> <<"google", "cloudflare", "quad9">>
      [] p = "quad9" -> <<"quad9", "cloudflare", "google">>

\* C1: for a valid domain, a supported type and a preferred provider among the
\* three, the providers tried are a prefix of: the preferred one, then the others
\* in the order cloudflare, google, quad9; each is tried at most once and only
\* after all earlier ones have failed, and the call ends with the first success.
C1_FallbackOrder ==
    (/\ q.pc # "idle"
     /\ validateDomain(q.domain)
     /\ q.recordType \in SupportedTypes
     /\ q.preferred \in Providers)
    => LET n == Len(q.tried)
           expected == ExpectedTrialOrder(q.preferred)
       IN /\ n <= 3
          /\ q.tried = SubSeq(expected, 1, n)
          /\ \A i \in 1..(n - 1) : q.tried[i] \in q.failed
          /\ q.pc \in {"fetch", "sleep"} => n >= 1 /\ q.tried[n] \notin q.failed
          /\ q.out.kind = "return"
                => /\ q.pc = "done"
                   /\ q.inflight = 0
                   /\ n >= 1
                   /\ q.out.result.source = q.tried[n]
                   /\ q.tried[n] \notin q.failed

\* C1 witness: preferred google, google and cloudflare failed, quad9 answered
C1_Witness ==
    /\ q.preferred = "google"
    /\ q.recordType = "A"
    /\ q.tried = <<"google", "cloudflare", "quad9">>
    /\ q.failed = {"google", "cloudflare"}
    /\ q.out.kind = "return"

\* C3: a provider's answer with a non-zero DNS status is never what queryDNS
\* returns (the call falls back to the next provider instead).
C3_StatusErrorFallsBack ==
    q.out.kind = "return" => q.out.result.error = <<>>

\* C4: in queryWithRetry a 4xx response ends the retry loop at once, and a 5xx
\* response before the last attempt is followed by a backoff sleep and another
\* attempt on the same provider.
C4_HttpRetryPolicy ==
    [][/\ (q.pc = "fetch" /\ last'.status \in 400..499)
            => /\ q'.pc # "sleep"
               /\ q'.pc = "fetch" => q'.pi > q.pi
       /\ (q.pc = "fetch" /\ last'.status \in 500..599 /\ q.attempt < maxRetries)
            => /\ q'.pc = "sleep"
               /\ q'.pi = q.pi
               /\ q'.lastDelay = BackoffDelay(q.attempt)]_vars

\* C5: for maxRetries 0..10 queryWithRetry makes at most maxRetries attempts on
\* its provider, one at a time, returns the first success, and when it fails it
\* fails with the error of its last attempt.
C5_RetryLoop ==
    q.pc # "idle"
    => /\ q.reqs <= q.maxRetries
       /\ q.inflight <= 1
       /\ q.out.kind = "return" => q.out.result.source = q.order[q.pi]
       /\ q.failed # {} => q.lastError # NullErr

\* C6: for maxRetries 0..10, when every provider fails queryDNS throws the
\* combined 'All DNS providers failed' error carrying the message of the last
\* failure, after every provider of the trial order has been tried.
C6_AllProvidersFailed ==
    (/\ q.pc = "done"
     /\ q.out.kind = "throw"
     /\ validateDomain(q.domain)
     /\ q.recordType \in SupportedTypes
     /\ q.preferred \in Providers)
    => /\ q.lastError # NullErr
       /\ q.out.error = Err("Error",
              <<"All", "DNS", "providers", "failed", ".", "Last", "error", ":">>
                  \o q.lastError.message)
       /\ Range(q.tried) = Providers
       /\ q.failed = Providers

\* C8: a call with an invalid domain, or with a record type outside the nine
\* supported ones, throws at once: no request, no provider tried, cache and
\* counters untouched.
C8_InvalidInputFailsFast ==
    (/\ q.pc # "idle"
     /\ \/ ~validateDomain(q.domain)
        \/ q.recordType \notin SupportedTypes)
    => /\ q.pc = "done"
       /\ q.out.kind = "throw"
       /\ q.total = 0
       /\ q.tried = <<>>
       /\ cache = <<>> /\ hits = 0 /\ misses = 0


(***************************************************************************)
(* The cache store on its own (specification SpecCache): setCache,         *)
(* getFromCache and clearCache called directly, from the empty cache up to *)
(* and beyond its limit of maxCacheSize entries.                           *)
(***************************************************************************)
\* the cache key of the i-th domain, "<i>.b"
KeyOf(i) == CacheKey(Digits(i) \o <<".", "b">>)

\* two keys more than the cache can hold
NumKeys == maxCacheSize + 2

\* keys that are set and read at any time; all other keys are first set in the
\* order of their numbers
ProbeIndices == {1}

\* the keys by number
AllKeys == [i \in 1..NumKeys |-> KeyOf(i)]

\* the domains behind them
AllDomains == [i \in 1..NumKeys |-> Digits(i) \o <<".", "b">>]

MaxOf(S) == CHOOSE i \in S : \A j \in S : j <= i
MinOf(S) == CHOOSE i \in S : \A j \in S : i <= j

\* the next key not yet set: one past the highest number in the cache
NextFresh(c) ==
    LET keys == CacheKeys(c)
        present == {j \in (1..NumKeys) \ ProbeIndices : AllKeys[j] \in keys}
    IN IF present = {}
       THEN MinOf((1..NumKeys) \ ProbeIndices)
       ELSE 1 + MaxOf(present)

\* setCache is called at most this many times beyond the number of keys
SetSlack == 3

\* a RecordSet whose A records carry the given ttl (s)
SampleRecordSet(domain, ttl) ==
    [t \in SupportedTypes |->
        QueryResult(domain, t,
                    IF t = "A" THEN <<DnsRecord(domain, "A", ttl, "rdata")>> ELSE <<>>,
                    "cloudflare", <<>>, <<>>, "absent")]

\* setCache(KeyOf(i), data, ttl)
CacheSet(i, ttl) ==
    /\ i <= NumKeys
    /\ clock < NumKeys + SetSlack
    /\ cache' = setCache(cache, AllKeys[i], SampleRecordSet(AllDomains[i], 300),
                         ttl, now)
    /\ stamp' = StampAfterSet(cache, AllKeys[i])
    /\ clock' = ClockAfterSet(cache, AllKeys[i])
    /\ last' = CacheOp("set", AllKeys[i], FALSE)
    /\ UNCHANGED <<maxRetries, timeout, hits, misses, now, q, calls, det, ui>>

\* getFromCache(KeyOf(i))
CacheGet(i) ==
    /\ LET r == getFromCache(cache, AllKeys[i], now)
       IN /\ cache' = r.cache
          /\ stamp' = [k \in CacheKeys(r.cache) |-> stamp[k]]
          /\ last' = CacheOp("get", AllKeys[i], r.found)
    /\ UNCHANGED <<maxRetries, timeout, hits, misses, now, q, clock, calls, det, ui>>

\* a clearCache that leaves the counters as they are
ClearCacheKeepStats ==
    /\ cache' = <<>>
    /\ stamp' = <<>>
    /\ clock' = 0
    /\ last' = Op("clearCache", FALSE)
    /\ UNCHANGED <<maxRetries, timeout, hits, misses, now, q, calls, det, ui>>

\* clearCache()
ClearCache ==
    /\ cache' = <<>>
    /\ hits' = 0
    /\ misses' = 0
    /\ stamp' = <<>>
    /\ clock' = 0
    /\ last' = Op("clearCache", FALSE)
    /\ UNCHANGED <<maxRetries, timeout, now, q, calls, det, ui>>

NextCache ==
    \/ \E i \in ProbeIndices \cup {NextFresh(cache)}, ttl \in {0} :
          CacheSet(i, ttl)
    \/ \E i \in ProbeIndices \cup {2} : CacheGet(i)
    \/ ClearCache

SpecCache == Init /\ [][NextCache]_vars

\* history: the key inserted earliest among those present
OldestKey(c) ==
    CHOOSE k \in CacheKeys(c) : \A j \in CacheKeys(c) : stamp[k] <= stamp[j]

\* C10: when the cache holds maxCacheSize (50) entries and a key that is not
\* present is set, exactly one entry is removed, the one inserted earliest
\* among those present, the new key is stored, and a get on the removed key
\* returns absent; a cache hit leaves the cache, and so the entry evicted
\* next, unchanged.
C10_EvictsEarliestInserted ==
    [][ /\ ( /\ last'.op = "set"
             /\ Len(cache) = maxCacheSize
             /\ last'.key \notin CacheKeys(cache) )
           => /\ CacheKeys(cache') =
                    (CacheKeys(cache) \ {OldestKey(cache)}) \cup {last'.key}
              /\ Len(cache') = maxCacheSize
              /\ cache'[Len(cache')].key = last'.key
              /\ ~getFromCache(cache', OldestKey(cache), now').found
        /\ (last'.op = "get" /\ last'.found)
           => /\ cache' = cache
              /\ EvictionVictim(cache') = EvictionVictim(cache)
      ]_vars

\* the second key, the first one set after the cache was empty, has been
\* evicted from the full cache and a get on it has just returned absent
C10_Witness ==
    /\ Len(cache) = maxCacheSize
    /\ clock > maxCacheSize
    /\ AllKeys[2] \notin CacheKeys(cache)
    /\ last.op = "get" /\ last.key = AllKeys[2] /\ ~last.found


(***************************************************************************)
(* categorizeError and isRetryableError.                                   *)
(***************************************************************************)
categorizeError(errorMessage) ==
    IF Includes(errorMessage, <<"timeout">>)
    THEN <<"Request", "timed", "out", "-", "DNS", "server", "may", "be",
           "slow", "or", "unreachable">>
    ELSE IF Includes(errorMessage, <<"Network", "error">>)
    THEN <<"Network", "connection", "failed", "-", "check", "your",
           "internet", "connection">>
    ELSE IF \/ Includes(errorMessage, <<"Name", "Error">>)
            \/ Includes(errorMessage, <<"NXDOMAIN">>)
    THEN <<"Domain", "not", "found", "-", "verify", "the", "domain", "name",
           "is", "correct">>
    ELSE IF Includes(errorMessage, <<"Server", "Failure">>)
    THEN <<"DNS", "server", "error", "-", "the", "authoritative", "server",
           "is", "having", "issues">>
    ELSE IF Includes(errorMessage, <<"Refused">>)
    THEN <<"DNS", "query", "refused", "-", "the", "server", "declined", "to",
           "answer">>
    ELSE IF Includes(errorMessage, <<"All", "DNS", "providers", "failed">>)
    THEN <<"All", "DNS", "providers", "unavailable", "-", "try", "again",
           "later">>
    ELSE errorMessage

\* the list without its last entry
retryableErrorsOfProvider ==
    {<<"timeout">>, <<"Network", "error">>, <<"Server", "Failure">>}

retryableErrors ==
    {<<"timeout">>, <<"Network", "error">>, <<"Server", "Failure">>,
     <<"All", "DNS", "providers", "failed">>}

isRetryableError(errorMessage) ==
    \E e \in retryableErrors : Includes(errorMessage, e)

\* the messages categorizeError can return for some message
CategoryMessages ==
    {categorizeError(m) : m \in {<<"timeout">>, <<"Network", "error">>,
                                 <<"NXDOMAIN">>, <<"Server", "Failure">>,
                                 <<"Refused">>,
                                 <<"All", "DNS", "providers", "failed">>}}

(***************************************************************************)
(* queryAllRecords, as steps of one call record.                           *)
(***************************************************************************)
\* what a queryAllRecords call settles with; data is the RecordSet, a function
\* from record type names to QueryResults
AllOut(kind, data, fromCache, error) ==
    [kind |-> kind, data |-> data, fromCache |-> fromCache, error |-> error]

NoRecordsError(domain, totalFailures) ==
    Err("Error", <<"Failed", "to", "retrieve", "any", "DNS", "records", "for">>
                     \o domain \o <<".", "All">> \o Digits(totalFailures)
                     \o <<"record", "type", "queries", "failed", ".">>)

\* recordTypes.slice(i, i + batchSize) for the b-th batch
Batch(b) ==
    SubSeq(RecordTypeNames, (b - 1) * batchSize + 1,
           Min(b * batchSize, Len(RecordTypeNames)))

\* the number of batches: the for loop with i += batchSize
NumBatches == (Len(RecordTypeNames) + batchSize - 1) \div batchSize

\* the result object built in the catch block of the batch callback
FailedResult(domain, recordType, error) ==
    QueryResult(domain, recordType, <<>>, "failed",
                categorizeError(error.message), error.message,
                IF isRetryableError(error.message) THEN "true" ELSE "false")

\* a test that makes queryAllRecords throw as soon as one query has failed
ShouldRaiseOnAnyFailure(hasAnySuccess, totalFailures) ==
    totalFailures > 0

\* !hasAnySuccess && totalFailures === recordTypes.length
ShouldRaise(hasAnySuccess, totalFailures) ==
    ~hasAnySuccess /\ totalFailures = Len(RecordTypeNames)

\* A queryAllRecords call.  slots are the queryDNS calls of the current batch;
\* net is the state of the network the call meets.  History: failedTypes,
\* the record types whose queryDNS has thrown; requests, the DoH requests
\* issued; known, whether getFromCache returned an entry.
IdleAll ==
    [pc |-> "idle", domain |-> <<>>, preferred |-> "", key |-> <<>>,
     batch |-> 0, slots |-> <<>>, results |-> <<>>,
     hasAnySuccess |-> FALSE, totalFailures |-> 0,
     out |-> AllOut("none", <<>>, FALSE, NullErr),
     net |-> "", failedTypes |-> {}, requests |-> 0, known |-> FALSE]

\* the callbacks of the slots that have settled since the last look: the flags
\* hasAnySuccess and totalFailures
SlotSettled(c, old, new) ==
    IF old.pc # "done" /\ new.pc = "done"
    THEN IF new.out.kind = "return"
         THEN [c EXCEPT !.hasAnySuccess = TRUE]
         ELSE [c EXCEPT !.totalFailures = c.totalFailures + 1,
                        !.failedTypes = c.failedTypes \cup {new.recordType}]
    ELSE c

\* the entry of the RecordSet for a settled slot
SlotResult(c, slot) ==
    IF slot.out.kind = "return"
    THEN slot.out.result
    ELSE FailedResult(c.domain, slot.recordType, slot.out.error)

\* batchResponses.forEach: the results of the batch enter the RecordSet
CommitBatch(c) ==
    LET types == {c.slots[i].recordType : i \in 1..Len(c.slots)}
        slotOf(t) == c.slots[CHOOSE i \in 1..Len(c.slots) : c.slots[i].recordType = t]
    IN [t \in (DOMAIN c.results) \cup types |->
           IF t \in types THEN SlotResult(c, slotOf(t)) ELSE c.results[t]]

\* the call settles: the throw or the return at the end of queryAllRecords
Finalize(c) ==
    IF ShouldRaise(c.hasAnySuccess, c.totalFailures)
    THEN [c EXCEPT !.pc = "done", !.slots = <<>>,
                   !.out = AllOut("throw", <<>>, FALSE,
                                  NoRecordsError(c.domain, c.totalFailures))]
    ELSE [c EXCEPT !.pc = "done", !.slots = <<>>,
                   !.out = AllOut("return", c.results, FALSE, NullErr)]

RECURSIVE SettleFrom(_, _, _)
\* the callbacks of the slots from i on that have settled on being started
SettleFrom(c, slots, i) ==
    IF i > Len(slots) THEN c
    ELSE The({SettleFrom(c1, slots, i + 1) :
                 c1 \in {SlotSettled(c, IdleCall, slots[i])}})

RECURSIVE SumTotal(_, _)
\* the DoH requests issued by the queryDNS calls from i on
SumTotal(slots, i) ==
    IF i > Len(slots) THEN 0 ELSE slots[i].total + SumTotal(slots, i + 1)

RECURSIVE StartBatch(_, _, _)
RECURSIVE Advance(_, _)

\* the loop over the batches from batch b: batch.map(...) calls queryDNS for
\* each record type of the batch, and Promise.all waits for all of them
StartBatch(c, b, mr) ==
    IF b > NumBatches
    THEN Finalize(c)
    ELSE LET types == Batch(b)
         IN The({Advance(c1, mr) :
                    c1 \in {SettleFrom([c EXCEPT !.pc = "batch", !.batch = b,
                                                 !.slots = slots], slots, 1) :
                               slots \in {[i \in 1..Len(types) |->
                                             queryDNS(c.domain, types[i],
                                                      c.preferred, mr)]}}})

\* Promise.all: once every queryDNS of the batch has settled, the results are
\* stored and the next batch starts
Advance(c, mr) ==
    IF \A i \in 1..Len(c.slots) : c.slots[i].pc = "done"
    THEN The({StartBatch(c1, c.batch + 1, mr) :
                 c1 \in {[c EXCEPT !.results = CommitBatch(c),
                                   !.requests = c.requests + SumTotal(c.slots, 1)]}})
    ELSE c

\* a queryDNS of the current batch has moved on to newSlot
SlotStep(c, i, newSlot, mr) ==
    The({Advance(c1, mr) :
            c1 \in {SlotSettled([c EXCEPT !.slots[i] = s], c.slots[i], s) :
                       s \in {newSlot}}})

\* queryAllRecords(domain, preferredProvider) at time t, up to its first wait
queryAllRecords(domain, preferredProvider, c, t, mr, net) ==
    LET call == [IdleAll EXCEPT !.domain = domain, !.preferred = preferredProvider,
                                !.net = net]
        cacheKey == CacheKey(domain)
        cached == getFromCache(c, cacheKey, t)
    IN IF ~validateDomain(domain)
       THEN [call EXCEPT !.pc = "done",
                         !.out = AllOut("throw", <<>>, FALSE,
                                        InvalidDomainError(domain))]
       ELSE IF cached.found
       THEN [call EXCEPT !.pc = "done", !.key = cacheKey, !.known = TRUE,
                         !.out = AllOut("return", cached.data, TRUE, NullErr)]
       ELSE StartBatch([call EXCEPT !.key = cacheKey], 1, mr)

\* the cache after a step of a call that had not settled before: the
\* setCache at the end of queryAllRecords
CacheAfterCall(call, c, t) ==
    IF /\ call.pc = "done"
       /\ call.out.kind = "return"
       /\ ~call.out.fromCache
       /\ call.hasAnySuccess
    THEN setCache(c, call.key, call.results, 0, t)
    ELSE c

\* history: the insertion serial numbers and their count after such a step
StampAfterCall(call, c) ==
    IF CacheAfterCall(call, c, 0) # c
    THEN StampAfterSet(c, call.key)
    ELSE [k \in CacheKeys(c) |-> stamp[k]]

ClockAfterCall(call, c) ==
    IF CacheAfterCall(call, c, 0) # c THEN ClockAfterSet(c, call.key) ELSE clock


(***************************************************************************)
(* The engine under queryAllRecords calls (specification SpecAll): calls   *)
(* one after the other, the network in one of a few conditions, time       *)
(* passing, clearCache and setMaxRetries between and during the calls.     *)
(***************************************************************************)
\* queryAllRecords is called at most this many times
MaxCalls == 2

\* Date.now() moves on in steps of TickStep ms, at most MaxTicks times
TickStep == 60000
MaxTicks == 2

\* conditions of the network:
\*   up        every provider answers every query
\*   shortttl  as up, the records carrying a TTL of 60 s
\*   nxdomain  every provider answers with DNS status 3
\*   partial   no answer in time to A queries, 'Failed to fetch' for PTR
\*             queries, 400 for MX and TXT queries, DNS status 2 for SOA
\*             queries
\*   down      every provider answers 404
\*   slow      cloudflare never answers in time, the others do
NetInputs == {"up", "shortttl", "nxdomain", "partial", "down", "slow"}

\* what the fetch of a query settles with under a condition of the network
NetOutcome(net, provider, domain, recordType) ==
    CASE net = "shortttl" -> JsonOutcome(0, AnswerFor(domain, recordType, 60))
      [] net = "nxdomain" -> JsonOutcome(3, <<>>)
      [] net = "partial" /\ recordType = "A" -> AbortOutcome
      [] net = "partial" /\ recordType = "PTR" ->
            TypeErrorOutcome(<<"Failed", "to", "fetch">>)
      [] net = "partial" /\ recordType \in {"MX", "TXT"} ->
            HttpOutcome(400, StatusText(400))
      [] net = "partial" /\ recordType = "SOA" -> JsonOutcome(2, <<>>)
      [] net = "down" -> HttpOutcome(404, StatusText(404))
      [] net = "slow" /\ provider = "cloudflare" -> AbortOutcome
      [] OTHER -> JsonOutcome(0, AnswerFor(domain, recordType, 300))

AllDomainInputs == {DomainLower, DomainMixed, DomainHyphen}

\* the call made last, and whether a call is under way
Current == calls[Len(calls)]
CallOpen == calls # <<>> /\ Current.pc # "done"

\* queryAllRecords(domain, preferredProvider) is called
CallQueryAllRecords(domain, preferredProvider, net) ==
    /\ Len(calls) < MaxCalls
    /\ ~CallOpen
    /\ calls # <<>> => net = calls[1].net
    /\ LET call == queryAllRecords(domain, preferredProvider, cache, now,
                                   maxRetries, net)
           looked == IF validateDomain(domain)
                     THEN getFromCache(cache, CacheKey(domain), now).cache
                     ELSE cache
       IN /\ calls' = Append(calls, call)
          /\ cache' = CacheAfterCall(call, looked, now)
          /\ stamp' = StampAfterCall(call, looked)
          /\ clock' = ClockAfterCall(call, looked)
          /\ hits' = IF call.known THEN hits + 1 ELSE hits
          /\ misses' = IF validateDomain(domain) /\ ~call.known
                       THEN misses + 1 ELSE misses
          /\ last' = Op("queryAllRecords", call.out.kind = "throw")
    /\ UNCHANGED <<maxRetries, timeout, now, q, det, ui>>

\* the DoH request of the i-th queryDNS of the current batch settles
AllFetchSettles(i) ==
    /\ CallOpen
    /\ i \in 1..Len(Current.slots)
    /\ Current.slots[i].pc = "fetch"
    /\ LET slot == Current.slots[i]
           o == NetOutcome(Current.net, slot.order[slot.pi], slot.domain,
                           slot.recordType)
       IN \E call \in {SlotStep(Current, i,
                                FetchSettled(slot, o, maxRetries, timeout),
                                maxRetries)} :
             /\ calls' = [calls EXCEPT ![Len(calls)] = call]
             /\ cache' = CacheAfterCall(call, cache, now)
             /\ stamp' = StampAfterCall(call, cache)
             /\ clock' = ClockAfterCall(call, cache)
             /\ last' = FetchOp(o)
    /\ UNCHANGED <<maxRetries, timeout, hits, misses, now, q, det, ui>>

\* the backoff sleep of the i-th queryDNS of the current batch is over
AllSleepElapses(i) ==
    /\ CallOpen
    /\ i \in 1..Len(Current.slots)
    /\ Current.slots[i].pc = "sleep"
    /\ LET call == SlotStep(Current, i,
                            SleepElapsed(Current.slots[i], maxRetries), maxRetries)
       IN /\ calls' = [calls EXCEPT ![Len(calls)] = call]
          /\ cache' = CacheAfterCall(call, cache, now)
          /\ stamp' = StampAfterCall(call, cache)
          /\ clock' = ClockAfterCall(call, cache)
          /\ last' = Op("sleep", FALSE)
    /\ UNCHANGED <<maxRetries, timeout, hits, misses, now, q, det, ui>>

\* time passes
Tick ==
    /\ now < MaxTicks * TickStep
    /\ now' = now + TickStep
    /\ last' = Op("tick", FALSE)
    /\ UNCHANGED <<maxRetries, timeout, cache, hits, misses, q, stamp, clock, calls, det, ui>>

\* setMaxRetries(n) between two calls
SetMaxRetriesBetween(n) ==
    /\ ~CallOpen
    /\ SetMaxRetries(n)

NextAll ==
    \/ \E d \in AllDomainInputs, p \in {"cloudflare"}, n \in NetInputs :
          CallQueryAllRecords(d, p, n)
    \/ \E i \in 1..batchSize : AllFetchSettles(i)
    \/ \E i \in 1..batchSize : AllSleepElapses(i)
    \/ Tick
    \/ ClearCache
    \/ \E n \in {0, 1, 11} : SetMaxRetriesBetween(n)

SpecAll == Init /\ [][NextAll]_vars


(***************************************************************************)
(* Properties of queryAllRecords (specification SpecAll).                  *)
(***************************************************************************)
\* the calls that have returned a RecordSet built from queries (a miss)
ReturnedOnMiss ==
    {i \in 1..Len(calls) : /\ calls[i].pc = "done"
                           /\ calls[i].out.kind = "return"
                           /\ ~calls[i].out.fromCache}

\* C2: on a cache miss queryAllRecords raises if and only if all 9 per-type
\* queries failed (their queryDNS threw); when it returns, the RecordSet has
\* exactly one entry for each of the 9 record types, the failed types as
\* entries with error set, and it is stored in the cache under the call's key;
\* when it raises, nothing is written to the cache.
C2_RaisesIffAllFailed ==
    [][ LET c == calls'[Len(calls')]
        IN ( /\ calls' # <<>>
             /\ c.pc = "done"
             /\ Len(calls') > Len(calls) \/ calls[Len(calls)].pc # "done"
             /\ validateDomain(c.domain)
             /\ ~c.known )
           => /\ c.out.kind \in {"throw", "return"}
              /\ c.out.kind = "throw" <=> c.failedTypes = SupportedTypes
              /\ c.out.kind = "return"
                 => /\ DOMAIN c.out.data = SupportedTypes
                    /\ \A t \in SupportedTypes :
                          /\ c.out.data[t].recordType = t
                          /\ t \in c.failedTypes
                             => /\ c.out.data[t].error # <<>>
                                /\ c.out.data[t].records = <<>>
                    /\ c.key \in CacheKeys(cache')
                    /\ MapGet(cache', c.key).data = c.out.data
              /\ c.out.kind = "throw"
                 => /\ Range(cache') \subseteq Range(cache)
                    /\ c.key \notin CacheKeys(cache') \/ c.key \in CacheKeys(cache)
      ]_vars

\* a call has returned a RecordSet in which four of the nine queries failed,
\* and the RecordSet is in the cache
C2_Witness ==
    \E i \in ReturnedOnMiss :
        /\ calls[i].failedTypes = {"A", "PTR", "MX", "TXT"}
        /\ calls[i].key \in CacheKeys(cache)
        /\ MapGet(cache, calls[i].key).data = calls[i].out.data

\* an error string categorizeError can have produced: one of its categories,
\* or a message it passes through unchanged
Categorized(message) ==
    message \in CategoryMessages \/ categorizeError(message) = message

\* C7: in every RecordSet returned by queryAllRecords on a miss, every entry
\* whose error field is set has a retryable flag and an error string produced
\* by categorizeError.
C7_ErrorsCategorizedAndTagged ==
    \A i \in ReturnedOnMiss :
        \A t \in DOMAIN calls[i].out.data :
            LET entry == calls[i].out.data[t]
            IN entry.error # <<>>
               => /\ entry.retryable \in {"true", "false"}
                  /\ Categorized(entry.error)

\* C9: when a queryAllRecords call has returned a RecordSet for a domain, its
\* entry is still in the cache (no clearCache, no eviction) and has not
\* expired, a call for a domain equal up to letter case issues no DoH request,
\* increments the hit counter only, returns the cached RecordSet tagged
\* fromCache, and leaves the cache as it is.
C9_HitOnCaseInsensitiveDomain ==
    [][ Len(calls') = Len(calls) + 1
        => LET c == calls'[Len(calls')]
               key == toLowerCase(c.domain) \o <<":", "ALL">>
               before == {i \in 1..Len(calls) :
                             /\ calls[i].out.kind = "return"
                             /\ toLowerCase(calls[i].domain) = toLowerCase(c.domain)}
           IN ( /\ validateDomain(c.domain)
                /\ before # {}
                /\ key \in CacheKeys(cache)
                /\ now <= MapGet(cache, key).expiresAt )
              => /\ c.pc = "done"
                 /\ c.out.kind = "return"
                 /\ c.out.fromCache
                 /\ c.out.data = MapGet(cache, key).data
                 /\ \E i \in before : c.out.data = calls[i].out.data
                 /\ c.requests = 0
                 /\ c.slots = <<>>
                 /\ hits' = hits + 1
                 /\ misses' = misses
                 /\ cache' = cache
      ]_vars

\* a call for a.b has returned a RecordSet from its queries, and a later call
\* for A.b has been answered from the cache
C9_Witness ==
    /\ Len(calls) = 2
    /\ calls[1].domain = DomainLower
    /\ 1 \in ReturnedOnMiss
    /\ calls[2].domain = DomainMixed
    /\ calls[2].out.kind = "return"
    /\ calls[2].out.fromCache
    /\ calls[2].requests = 0
    /\ hits = 1


(***************************************************************************)
(* The cache store under direct use and queryAllRecords calls together     *)
(* (specification SpecStore): keys set in the order of their numbers, gets,*)
(* clearCache, and queryAllRecords calls for the first domain made once    *)
(* the cache is about to reach its limit.                                  *)
(***************************************************************************)
\* queryAllRecords is called when the cache holds at least this many entries
StoreCallsFrom == maxCacheSize - 1

\* queryAllRecords(AllDomains[1]) with every provider answering
StoreCall ==
    /\ Len(cache) >= StoreCallsFrom
    /\ clock < NumKeys + SetSlack
    /\ CallQueryAllRecords(AllDomains[1], "cloudflare", "up")

NextStore ==
    \/ CacheSet(NextFresh(cache), 0)
    \/ CacheGet(2)
    \/ ClearCache
    \/ StoreCall
    \/ \E i \in 1..batchSize : AllFetchSettles(i)

SpecStore == Init /\ [][NextStore]_vars

\* C11: in every reachable state, after any sequence and interleaving of
\* queryAllRecords calls, cache sets, gets and clearCache, the cache holds at
\* most maxCacheSize (50) entries and at most one entry per key.
C11_CacheBounded ==
    /\ Len(cache) <= maxCacheSize
    /\ \A i, j \in 1..Len(cache) : cache[i].key = cache[j].key => i = j

\* the cache is full after more insertions than it can hold, the latest one
\* made by a queryAllRecords call that returned
C11_Witness ==
    /\ Len(cache) = maxCacheSize
    /\ clock > maxCacheSize
    /\ calls # <<>>
    /\ Len(calls) \in ReturnedOnMiss
    /\ cache[Len(cache)].key = calls[Len(calls)].key


(***************************************************************************)
(* The lifetime of cache entries (specification SpecTTL): setCache with    *)
(* RecordSets of various record TTLs and with various ttl arguments,       *)
(* getFromCache and clearCache, while time passes.                         *)
(***************************************************************************)
\* a RecordSet whose A records carry the given TTLs (s), in this order
RecordSetWith(domain, ttls) ==
    [t \in SupportedTypes |->
        QueryResult(domain, t,
                    IF t = "A"
                    THEN [i \in 1..Len(ttls) |-> DnsRecord(domain, "A", ttls[i], "rdata")]
                    ELSE <<>>,
                    "cloudflare", <<>>, <<>>, "absent")]

\* the record TTLs (s) of the RecordSets handed to setCache
RecordTTLInputs == {<<>>, <<0, 60>>, <<20>>, <<400>>, <<700>>}

\* the ttl arguments (ms) handed to setCache; 0 also stands for an omitted one
TTLArgInputs == {0, 0 - 1, 45000}

\* a key is set anew at most this many times between two clearCache calls
MaxInserts == 3

\* setCache(KeyOf(1), data, ttl)
CacheSetData(ttls, ttl) ==
    /\ clock < MaxInserts
    /\ cache' = setCache(cache, AllKeys[1], RecordSetWith(AllDomains[1], ttls),
                         ttl, now)
    /\ stamp' = StampAfterSet(cache, AllKeys[1])
    /\ clock' = ClockAfterSet(cache, AllKeys[1])
    /\ last' = CacheOp("set", AllKeys[1], FALSE)
    /\ UNCHANGED <<maxRetries, timeout, hits, misses, now, q, calls, det, ui>>

\* setCache(KeyOf(2), data)
CacheSetOther ==
    /\ clock < MaxInserts
    /\ CacheSet(2, 0)

NextTTL ==
    \/ \E ttls \in RecordTTLInputs, ttl \in TTLArgInputs : CacheSetData(ttls, ttl)
    \/ CacheSetOther
    \/ \E i \in {1, 2} : CacheGet(i)
    \/ ClearCache
    \/ Tick

SpecTTL == Init /\ [][NextTTL]_vars

\* C12: for every key, data value and ttl argument that setCache accepts
\* (omitted, zero, or any explicit number), a getFromCache on the same key
\* right after the setCache, with no time elapsed, returns the data just
\* stored.
C12_GetAfterSetHits ==
    [][ \A ttls \in RecordTTLInputs, ttl \in TTLArgInputs :
          ( /\ last'.op = "set"
            /\ last'.key = AllKeys[1]
            /\ cache' = setCache(cache, AllKeys[1],
                                 RecordSetWith(AllDomains[1], ttls), ttl, now) )
          => LET got == getFromCache(cache', AllKeys[1], now')
             IN /\ got.found
                /\ got.data = RecordSetWith(AllDomains[1], ttls)
      ]_vars

\* C13: a getFromCache on a key whose entry is past expiresAt returns absent
\* and removes that entry; on an unexpired entry it returns the data and
\* leaves the cache unchanged; no entry is removed because time passes: an
\* entry goes only through a get on its key, through the eviction inside
\* setCache, or through clearCache.
C13_LazyExpiry ==
    [][ /\ ( /\ last'.op = "get"
             /\ last'.key \in CacheKeys(cache)
             /\ now > MapGet(cache, last'.key).expiresAt )
           => /\ ~last'.found
              /\ cache' = MapDelete(cache, last'.key)
        /\ ( /\ last'.op = "get"
             /\ last'.key \in CacheKeys(cache)
             /\ now <= MapGet(cache, last'.key).expiresAt )
           => /\ last'.found
              /\ getFromCache(cache, last'.key, now).data
                    = MapGet(cache, last'.key).data
              /\ cache' = cache
        /\ last'.op = "tick" => cache' = cache
        /\ \A k \in CacheKeys(cache) \ CacheKeys(cache') :
              \/ last'.op = "get" /\ last'.key = k
              \/ /\ last'.op = "set"
                 /\ Len(cache) >= maxCacheSize
                 /\ k = cache[1].key
              \/ last'.op = "clearCache"
      ]_vars

\* both keys have been set, time has passed, and a get on the first key has
\* just found its entry expired and removed it; the other entry is still there
C13_Witness ==
    /\ last.op = "get" /\ last.key = AllKeys[1] /\ ~last.found
    /\ clock = 2
    /\ now > 0
    /\ CacheKeys(cache) = {AllKeys[2]}

\* the lifetime (ms) of an entry set without a ttl argument: the smallest
\* record TTL in ms, held within 30 s and 600 s; 300 s without any record TTL
ExpectedLifetime(ttls) ==
    IF ttls = <<>>
    THEN defaultCacheTTL
    ELSE Max(30000, Min(600000, 1000 * MinOf(Range(ttls))))

\* C14: when setCache is called without a ttl, the entry's lifetime is the
\* minimum record ttl of the RecordSet in ms clamped to [30000, 600000], and
\* 300000 when no record carries a ttl; also for RecordSets whose smallest
\* record ttl is 0 s or above 300 s.
C14_LifetimeFromRecordTTLs ==
    [][ \A ttls \in RecordTTLInputs :
          ( /\ last'.op = "set"
            /\ last'.key = AllKeys[1]
            /\ cache' = setCache(cache, AllKeys[1],
                                 RecordSetWith(AllDomains[1], ttls), 0, now) )
          => LET entry == MapGet(cache', AllKeys[1])
             IN entry.expiresAt - entry.cachedAt = ExpectedLifetime(ttls)
      ]_vars


(***************************************************************************)
(* Properties of the batches of queryAllRecords (specification SpecAll).   *)
(***************************************************************************)
ExpectedBatch(b) ==
    CASE b = 1 -> <<"A", "NS", "CNAME">>
      [] b = 2 -> <<"SOA", "PTR", "MX">>
      [] b = 3 -> <<"TXT", "AAAA", "SRV">>

\* the record types of the batches before batch b
TypesBefore(b) == UNION {Range(ExpectedBatch(k)) : k \in 1..(b - 1)}

\* C15: within a queryAllRecords call on a miss, the 9 record types are
\* queried in three batches of 3; the 3 queries of a batch are started
\* together, no query of batch N+1 starts before all 3 queries of batch N have
\* settled, and a failure inside a batch does not keep the later batches from
\* running.
C15_BatchesOfThree ==
    [][ \A i \in 1..Len(calls') :
          LET c == calls'[i]
          IN /\ c.pc = "batch"
                => /\ c.batch \in 1..3
                   /\ Len(c.slots) = 3
                   /\ \A k \in 1..3 :
                         /\ c.slots[k].recordType = ExpectedBatch(c.batch)[k]
                         /\ c.slots[k].pc # "idle"
                   /\ DOMAIN c.results = TypesBefore(c.batch)
                   /\ (i > Len(calls) \/ calls[i].batch # c.batch)
                      => \A k \in 1..3 : /\ c.slots[k].pc = "fetch"
                                         /\ c.slots[k].inflight = 1
             /\ (c.pc = "done" /\ validateDomain(c.domain) /\ ~c.known)
                => /\ c.batch = 3
                   /\ DOMAIN c.results = TypesBefore(4)
      ]_vars

\* the second batch has just been started, all three of its queries in
\* flight, after a query of the first batch failed
C15_Witness ==
    /\ CallOpen
    /\ Current.batch = 2
    /\ "A" \in Current.failedTypes
    /\ \A k \in 1..3 : Current.slots[k].pc = "fetch" /\ Current.slots[k].total = 1


(***************************************************************************)
(* queryAllRecords calls that overlap (specification SpecOverlap): a call  *)
(* may be made while an earlier one is still waiting for its requests.     *)
(***************************************************************************)
\* conditions of the network met by overlapping calls
OverlapNetInputs == {"up", "nxdomain"}

\* queryAllRecords(domain, 'cloudflare') is called, whatever the state of
\* the earlier calls
OverlapCall(domain, net) ==
    /\ Len(calls) < MaxCalls
    /\ calls # <<>> => net = calls[1].net
    /\ LET call == queryAllRecords(domain, "cloudflare", cache, now,
                                   maxRetries, net)
           looked == IF validateDomain(domain)
                     THEN getFromCache(cache, CacheKey(domain), now).cache
                     ELSE cache
       IN /\ calls' = Append(calls, call)
          /\ cache' = CacheAfterCall(call, looked, now)
          /\ stamp' = StampAfterCall(call, looked)
          /\ clock' = ClockAfterCall(call, looked)
          /\ hits' = IF call.known THEN hits + 1 ELSE hits
          /\ misses' = IF validateDomain(domain) /\ ~call.known
                       THEN misses + 1 ELSE misses
          /\ last' = Op("queryAllRecords", call.out.kind = "throw")
    /\ UNCHANGED <<maxRetries, timeout, now, q, det, ui>>

\* the DoH request of the i-th queryDNS of the current batch of call k settles
OverlapFetchSettles(k, i) ==
    /\ k \in 1..Len(calls)
    /\ calls[k].pc = "batch"
    /\ i \in 1..Len(calls[k].slots)
    /\ calls[k].slots[i].pc = "fetch"
    /\ LET slot == calls[k].slots[i]
           o == NetOutcome(calls[k].net, slot.order[slot.pi], slot.domain,
                           slot.recordType)
           call == SlotStep(calls[k], i,
                            FetchSettled(slot, o, maxRetries, timeout), maxRetries)
       IN /\ calls' = [calls EXCEPT ![k] = call]
          /\ cache' = CacheAfterCall(call, cache, now)
          /\ stamp' = StampAfterCall(call, cache)
          /\ clock' = ClockAfterCall(call, cache)
          /\ last' = FetchOp(o)
    /\ UNCHANGED <<maxRetries, timeout, hits, misses, now, q, det, ui>>

NextOverlap ==
    \/ \E d \in {DomainLower, DomainMixed}, n \in OverlapNetInputs : OverlapCall(d, n)
    \/ \E k \in 1..MaxCalls, i \in 1..batchSize : OverlapFetchSettles(k, i)

SpecOverlap == Init /\ [][NextOverlap]_vars

RECURSIVE SumInflight(_, _)
\* the requests in flight of the queryDNS calls from i on
SumInflight(slots, i) ==
    IF i > Len(slots) THEN 0 ELSE slots[i].inflight + SumInflight(slots, i + 1)

RECURSIVE InFlightFrom(_, _)
\* the requests in flight for a domain (lower case), over the calls from k on
InFlightFrom(domain, k) ==
    IF k > Len(calls) THEN 0
    ELSE (IF toLowerCase(calls[k].domain) = domain
          THEN SumInflight(calls[k].slots, 1) ELSE 0)
         + InFlightFrom(domain, k + 1)

\* C16: in every reachable state, for any number of queryAllRecords calls in
\* progress on the engine, at most 3 DoH requests for one domain are in flight.
C16_AtMostThreeInFlight ==
    \A d \in {DomainLower} : InFlightFrom(d, 1) <= 3


(***************************************************************************)
(* Properties of timeouts inside a batch (specification SpecAll).          *)
(***************************************************************************)
\* the request of slot i of call c is one that is not answered in time
TimesOut(c, i) ==
    /\ c.slots[i].pc = "fetch"
    /\ NetOutcome(c.net, c.slots[i].order[c.slots[i].pi], c.slots[i].domain,
                  c.slots[i].recordType) = AbortOutcome

\* C17: when the timeout of one in-flight DoH call expires, only that call is
\* aborted: it fails with the timeout error, which its retry loop treats as
\* retryable (a backoff sleep follows unless it was the last attempt), and the
\* other calls of the batch are left as they are, still in flight.
C17_TimeoutAbortsOneCall ==
    [][ ( /\ CallOpen
          /\ last'.op = "fetch"
          /\ Len(calls') = Len(calls)
          /\ calls'[Len(calls)].pc = "batch"
          /\ calls'[Len(calls)].batch = Current.batch )
        => \A i \in 1..Len(Current.slots) :
              ( /\ TimesOut(Current, i)
                /\ calls'[Len(calls)].slots[i] # Current.slots[i] )
              => LET old == Current.slots[i]
                     new == calls'[Len(calls)].slots[i]
                 IN /\ \A j \in (1..Len(Current.slots)) \ {i} :
                          calls'[Len(calls)].slots[j] = Current.slots[j]
                    /\ new.inflight = IF new.pc = "fetch" THEN 1 ELSE 0
                    /\ old.attempt < maxRetries
                       => /\ new.pc = "sleep"
                          /\ new.pi = old.pi
                          /\ new.retryLastError = TimeoutError(timeout)
                    /\ old.attempt >= maxRetries
                       => /\ new.lastError = TimeoutError(timeout)
                          /\ old.order[old.pi] \in new.failed
      ]_vars

\* a call has returned a RecordSet in which the A query, timed out at every
\* provider, is a failed entry while NS and CNAME of the same batch were
\* answered
C17_Witness ==
    \E i \in ReturnedOnMiss :
        LET data == calls[i].out.data
        IN /\ data["A"].source = "failed"
           /\ Includes(data["A"].originalError, <<"DNS", "query", "timeout", "after">>)
           /\ data["A"].retryable = "true"
           /\ \A t \in {"NS", "CNAME"} :
                 data[t].error = <<>> /\ Len(data[t].records) >= 1


(***************************************************************************)
(* Properties of the backoff of queryWithRetry (specification Spec).       *)
(***************************************************************************)
\* C18: after the k-th failed retryable attempt (a timeout, a network failure,
\* a 5xx response) with k < maxRetries, queryWithRetry waits
\* retryDelay * 2^(k-1) ms and then starts attempt k+1 on the same provider;
\* no wait follows the final attempt or a non-retryable (4xx) failure.
C18_ExponentialBackoff ==
    [][ /\ ( /\ q.pc = "fetch"
             /\ last'.op = "fetch"
             /\ last'.threw
             /\ last'.status \notin 400..499
             /\ q.attempt < maxRetries )
           => /\ q'.pc = "sleep"
              /\ q'.pi = q.pi
              /\ q'.attempt = q.attempt
              /\ q'.lastDelay = 1000 * 2 ^ (q.attempt - 1)
        /\ ( /\ q.pc = "fetch"
             /\ last'.op = "fetch"
             /\ q.attempt >= maxRetries \/ last'.status \in 400..499 )
           => q'.pc # "sleep"
        /\ ( q.pc = "sleep" /\ last'.op = "sleep" )
           => /\ q'.pc = "fetch"
              /\ q'.pi = q.pi
              /\ q'.attempt = q.attempt + 1
      ]_vars


(***************************************************************************)
(* querySpecificRecords, as steps of one call record (specification        *)
(* SpecSpecific).                                                          *)
(***************************************************************************)
\* A querySpecificRecords call.  slots are its queryDNS calls, one for each
\* requested record type.  History: failedTypes, requests as in IdleAll.
IdleSpecific ==
    [pc |-> "idle", domain |-> <<>>, types |-> <<>>, preferred |-> "",
     slots |-> <<>>, results |-> <<>>,
     out |-> AllOut("none", <<>>, FALSE, NullErr),
     net |-> "", failedTypes |-> {}, requests |-> 0]

\* history: the record types whose queryDNS has thrown
SpecificSettled(c, old, new) ==
    IF old.pc # "done" /\ new.pc = "done" /\ new.out.kind = "throw"
    THEN [c EXCEPT !.failedTypes = c.failedTypes \cup {new.recordType}]
    ELSE c

RECURSIVE SpecificSettleFrom(_, _, _)
SpecificSettleFrom(c, slots, i) ==
    IF i > Len(slots) THEN c
    ELSE SpecificSettleFrom(SpecificSettled(c, IdleCall, slots[i]), slots, i + 1)

\* an ending that throws when every requested type has failed, as
\* queryAllRecords does
SpecificFinishRaising(c) ==
    IF c.failedTypes = Range(c.types)
    THEN [c EXCEPT !.pc = "done", !.slots = <<>>,
                   !.out = AllOut("throw", <<>>, FALSE,
                                  NoRecordsError(c.domain, Len(c.types)))]
    ELSE [c EXCEPT !.pc = "done", !.slots = <<>>,
                   !.out = AllOut("return", c.results, FALSE, NullErr)]

\* after Promise.all: responses.forEach and `return results`
SpecificFinish(c) ==
    [c EXCEPT !.pc = "done", !.slots = <<>>,
              !.out = AllOut("return", c.results, FALSE, NullErr)]

\* Promise.all: once every queryDNS has settled the results are collected
SpecificAdvance(c) ==
    IF \A i \in 1..Len(c.slots) : c.slots[i].pc = "done"
    THEN SpecificFinish([c EXCEPT !.results = CommitBatch(c),
                                  !.requests = c.requests + SumTotal(c.slots, 1)])
    ELSE c

\* a queryDNS of the call has moved on to newSlot
SpecificSlotStep(c, i, newSlot) ==
    SpecificAdvance(SpecificSettled([c EXCEPT !.slots[i] = newSlot],
                                    c.slots[i], newSlot))

\* querySpecificRecords(domain, recordTypes, preferredProvider) up to its
\* first wait
querySpecificRecords(domain, types, preferredProvider, mr, net) ==
    LET call == [IdleSpecific EXCEPT !.domain = domain, !.types = types,
                                     !.preferred = preferredProvider, !.net = net]
    IN IF ~validateDomain(domain)
       THEN [call EXCEPT !.pc = "done",
                         !.out = AllOut("throw", <<>>, FALSE,
                                        InvalidDomainError(domain))]
       ELSE IF Len(types) = 0
       THEN [call EXCEPT !.pc = "done",
                         !.out = AllOut("throw", <<>>, FALSE,
                                        Err("Error", <<"Record", "types", "must",
                                            "be", "a", "non-empty", "array">>))]
       ELSE IF \E i \in 1..Len(types) : recordTypes(types[i]) = 0
       THEN LET bad == CHOOSE i \in 1..Len(types) :
                          /\ recordTypes(types[i]) = 0
                          /\ \A j \in 1..(i - 1) : recordTypes(types[j]) # 0
            IN [call EXCEPT !.pc = "done",
                            !.out = AllOut("throw", <<>>, FALSE,
                                           UnsupportedTypeError(types[bad]))]
       ELSE LET slots == [i \in 1..Len(types) |->
                             queryDNS(domain, types[i], preferredProvider, mr)]
            IN SpecificAdvance(
                   SpecificSettleFrom([call EXCEPT !.pc = "all", !.slots = slots],
                                      slots, 1))

\* the lists of record types handed to querySpecificRecords
TypeListInputs ==
    {<<>>, <<"a">>, <<"A">>, <<"MX", "TXT">>, <<"A", "NS", "CNAME", "SOA">>}

\* the longest of them
MaxTypes == 4

SpecificNetInputs == {"up", "nxdomain", "partial", "down"}

\* querySpecificRecords(domain, recordTypes, 'cloudflare') is called
CallQuerySpecific(domain, types, net) ==
    /\ Len(calls) < MaxCalls
    /\ ~CallOpen
    /\ calls # <<>> => net = calls[1].net
    /\ LET call == querySpecificRecords(domain, types, "cloudflare",
                                        maxRetries, net)
       IN /\ calls' = Append(calls, call)
          /\ last' = Op("querySpecificRecords", call.out.kind = "throw")
    /\ UNCHANGED <<maxRetries, timeout, cache, hits, misses, now, q, stamp, clock, det, ui>>

\* the DoH request of the i-th queryDNS of the call settles
SpecificFetchSettles(i) ==
    /\ CallOpen
    /\ i \in 1..Len(Current.slots)
    /\ Current.slots[i].pc = "fetch"
    /\ LET slot == Current.slots[i]
           o == NetOutcome(Current.net, slot.order[slot.pi], slot.domain,
                           slot.recordType)
           call == SpecificSlotStep(Current, i,
                                    FetchSettled(slot, o, maxRetries, timeout))
       IN /\ calls' = [calls EXCEPT ![Len(calls)] = call]
          /\ last' = FetchOp(o)
    /\ UNCHANGED <<maxRetries, timeout, cache, hits, misses, now, q, stamp, clock, det, ui>>

\* the backoff sleep of the i-th queryDNS of the call is over
SpecificSleepElapses(i) ==
    /\ CallOpen
    /\ i \in 1..Len(Current.slots)
    /\ Current.slots[i].pc = "sleep"
    /\ LET call == SpecificSlotStep(Current, i,
                                    SleepElapsed(Current.slots[i], maxRetries))
       IN /\ calls' = [calls EXCEPT ![Len(calls)] = call]
          /\ last' = Op("sleep", FALSE)
    /\ UNCHANGED <<maxRetries, timeout, cache, hits, misses, now, q, stamp, clock, det, ui>>

\* setCache('1.b:ALL', data): the cache comes to hold the RecordSet of the
\* domain the calls are made for
CacheSetFirst ==
    /\ clock < MaxInserts
    /\ CacheSet(1, 0)

NextSpecific ==
    \/ \E d \in {AllDomains[1], DomainHyphen}, types \in TypeListInputs,
          n \in SpecificNetInputs : CallQuerySpecific(d, types, n)
    \/ \E i \in 1..MaxTypes : SpecificFetchSettles(i)
    \/ \E i \in 1..MaxTypes : SpecificSleepElapses(i)
    \/ CacheSetFirst
    \/ ClearCache
    \/ \E n \in {0, 1} : SetMaxRetriesBetween(n)

SpecSpecific == Init /\ [][NextSpecific]_vars

\* C19: querySpecificRecords with a valid domain and a non-empty list of
\* supported types starts all per-type queries at once, returns an entry for
\* exactly the requested types with each failure captured inline as an entry
\* with error set, does not raise even when every requested type fails, and
\* neither reads nor writes the cache nor changes the hit and miss counters.
C19_SpecificRecords ==
    [][ /\ last'.op \in {"querySpecificRecords", "fetch", "sleep"}
           => cache' = cache /\ hits' = hits /\ misses' = misses
        /\ \A k \in 1..Len(calls') :
              LET c == calls'[k]
              IN ( /\ validateDomain(c.domain)
                   /\ c.types # <<>>
                   /\ Range(c.types) \subseteq SupportedTypes )
                 => /\ c.pc \in {"all", "done"}
                    /\ c.pc = "all"
                       => /\ Len(c.slots) = Len(c.types)
                          /\ \A i \in 1..Len(c.types) :
                                /\ c.slots[i].recordType = c.types[i]
                                /\ c.slots[i].pc # "idle"
                          /\ k > Len(calls)
                             => \A i \in 1..Len(c.types) :
                                   /\ c.slots[i].pc = "fetch"
                                   /\ c.slots[i].inflight = 1
                    /\ c.pc = "done"
                       => /\ c.out.kind = "return"
                          /\ ~c.out.fromCache
                          /\ DOMAIN c.out.data = Range(c.types)
                          /\ \A t \in Range(c.types) :
                                /\ c.out.data[t].recordType = t
                                /\ t \in c.failedTypes
                                   => /\ c.out.data[t].error # <<>>
                                      /\ c.out.data[t].source = "failed"
                                      /\ c.out.data[t].records = <<>>
                          /\ ( /\ k > Len(calls) \/ calls[k].pc # "done"
                               /\ maxRetries >= 1 )
                             => c.requests >= Len(c.types)
      ]_vars

\* with the RecordSet of the domain in the cache, a call for MX and TXT has
\* returned after requests to every provider, both entries failed
C19_Witness ==
    /\ calls # <<>>
    /\ Current.pc = "done"
    /\ Current.types = <<"MX", "TXT">>
    /\ Current.out.kind = "return"
    /\ Current.failedTypes = {"MX", "TXT"}
    /\ Current.requests = 6
    /\ CacheKey(Current.domain) \in CacheKeys(cache)
    /\ hits = 0 /\ misses = 0

(***************************************************************************)
(* DNSErrorDetector.detectCircularCNAME.  The argument is the list          *)
(* dnsRecords.CNAME.records (empty when the CNAME entry is missing); names  *)
(* and targets are sequences of characters.                                 *)
(***************************************************************************)
CnameRecord(name, data) == [name |-> name, data |-> data]

\* the issue pushed for a record that points to itself (no chainLength: 0)
SelfIssue(recordName, targetName) ==
    [type |-> "circular_cname", severity |-> "critical",
     recordName |-> recordName, target |-> targetName, chainLength |-> 0]

\* the issue pushed for a chain that comes back to a name already on it
\* (no target: the empty string)
ChainIssue(recordName, chainLength) ==
    [type |-> "circular_cname", severity |-> "critical",
     recordName |-> recordName, target |-> <<>>, chainLength |-> chainLength]

\* the levels of a chain the detector follows
maxChainDepth == 10

\* records.find(record => record.name.toLowerCase() === currentTarget):
\* the index of the first record with that name, 0 when there is none
FindCname(records, currentTarget) ==
    LET idx == {i \in 1..Len(records) : toLowerCase(records[i].name) = currentTarget}
    IN  IF idx = {} THEN 0 ELSE CHOOSE i \in idx : \A j \in idx : i <= j

\* a walk that follows the chain with no limit on its depth
RECURSIVE FollowChainUnbounded(_, _, _, _)
FollowChainUnbounded(records, cnameChain, currentTarget, depth) ==
    IF currentTarget \in cnameChain THEN depth + 1
    ELSE LET nextCname == FindCname(records, currentTarget)
         IN  IF nextCname = 0 THEN 0
             ELSE FollowChainUnbounded(records, cnameChain \cup {currentTarget},
                                       toLowerCase(records[nextCname].data),
                                       depth + 1)

\* the loop `for (let depth = 0; depth < 10; depth++)`: the chainLength of the
\* issue it pushes, 0 when it pushes none
RECURSIVE FollowChain(_, _, _, _)
FollowChain(records, cnameChain, currentTarget, depth) ==
    IF depth >= maxChainDepth THEN 0
    ELSE IF currentTarget \in cnameChain THEN depth + 1
    ELSE LET nextCname == FindCname(records, currentTarget)
         IN  IF nextCname = 0 THEN 0
             ELSE FollowChain(records, cnameChain \cup {currentTarget},
                              toLowerCase(records[nextCname].data), depth + 1)

\* one turn of the loop over the CNAME records: the issues it pushes
CheckCname(records, i) ==
    LET recordName == toLowerCase(records[i].name)
        targetName == toLowerCase(records[i].data)
        chainLength == FollowChain(records, {recordName}, targetName, 0)
    IN  IF recordName = targetName THEN <<SelfIssue(recordName, targetName)>>
        ELSE IF chainLength > 0 THEN <<ChainIssue(recordName, chainLength)>>
        ELSE <<>>

RECURSIVE DetectFrom(_, _)
DetectFrom(records, i) ==
    IF i > Len(records) THEN <<>>
    ELSE CheckCname(records, i) \o DetectFrom(records, i + 1)

detectCircularCNAME(records) ==
    IF Len(records) = 0 THEN <<>> ELSE DetectFrom(records, 1)

(***************************************************************************)
(* Specification SpecCNAME: detectCircularCNAME applied to CNAME record     *)
(* sets: every list of up to MaxCnames records over three names in mixed    *)
(* case, rings of up to MaxRing records and chains that end.                *)
(***************************************************************************)
MaxCnames == 4
MaxRing == 11

CnameNameInputs == {<<"a">>, <<"B">>, <<"c">>}
CnameDataInputs == {<<"A">>, <<"b">>, <<"c">>}
CnameRecordInputs ==
    {CnameRecord(n, d) : n \in CnameNameInputs, d \in CnameDataInputs}

RECURSIVE SeqsUpTo(_, _)
SeqsUpTo(S, n) ==
    IF n = 0 THEN {<<>>}
    ELSE LET shorter == SeqsUpTo(S, n - 1)
         IN  shorter \cup {Append(s, x) : s \in {t \in shorter : Len(t) = n - 1}, x \in S}

NodeName(i) == <<"n">> \o Digits(i)

\* n1 -> n2 -> ... -> nN -> n1
Ring(n) == [i \in 1..n |-> CnameRecord(NodeName(i), NodeName((i % n) + 1))]

\* n1 -> n2 -> ... -> nN -> n(N+1), which has no record
Chain(n) == [i \in 1..n |-> CnameRecord(NodeName(i), NodeName(i + 1))]

CnameInputs ==
    SeqsUpTo(CnameRecordInputs, MaxCnames)
        \cup {Ring(n) : n \in 2..MaxRing} \cup {Chain(n) : n \in 2..MaxRing}

InitCNAME ==
    /\ maxRetries = defaultMaxRetries
    /\ timeout = defaultTimeout
    /\ cache = <<>>
    /\ hits = 0
    /\ misses = 0
    /\ now = 0
    /\ q = IdleCall
    /\ stamp = <<>>
    /\ clock = 0
    /\ calls = <<>>
    /\ last = Op("constructor", FALSE)
    /\ ui = InitialUI
    /\ det \in {[pc |-> "called", records |-> rs, errors |-> <<>>] : rs \in CnameInputs}

DetectCircularCNAME ==
    /\ det.pc = "called"
    /\ det' = [det EXCEPT !.pc = "done", !.errors = detectCircularCNAME(det.records)]
    /\ UNCHANGED <<maxRetries, timeout, cache, hits, misses, now, q, stamp, clock,
                   calls, last, ui>>

NextCNAME == DetectCircularCNAME

SpecCNAME == InitCNAME /\ [][NextCNAME]_vars

\* the CNAME records as edges name -> target between lower-case names
CnameEdges(records) ==
    {<<toLowerCase(records[i].name), toLowerCase(records[i].data)>> :
        i \in 1..Len(records)}

\* the names reached from the names S along at most k records
RECURSIVE ReachedWithin(_, _, _)
ReachedWithin(E, S, k) ==
    IF k = 0 THEN S
    ELSE ReachedWithin(E, S \cup {e[2] : e \in {f \in E : f[1] \in S}}, k - 1)

\* the record set contains a loop of at most n records
LoopOfAtMost(records, n) ==
    LET E == CnameEdges(records)
    IN  \E e \in E : e[1] \in ReachedWithin(E, {e[2]}, n - 1)

IsCircularIssue(issue) ==
    issue.type = "circular_cname" /\ issue.severity = "critical"

\* C20: detectCircularCNAME reports a critical circular-reference issue for
\* every CNAME record whose name equals its target ignoring case, at least
\* one critical circular-reference issue for every record set that contains
\* a loop of at most 10 records, and no issue for a record set whose chains
\* all terminate.
C20_CircularCnameDetected ==
    det.pc = "done" =>
        /\ \A i \in 1..Len(det.records) :
               toLowerCase(det.records[i].name) = toLowerCase(det.records[i].data)
                   => \E j \in 1..Len(det.errors) :
                          /\ IsCircularIssue(det.errors[j])
                          /\ det.errors[j].recordName = toLowerCase(det.records[i].name)
        /\ LoopOfAtMost(det.records, 10)
               => \E j \in 1..Len(det.errors) : IsCircularIssue(det.errors[j])
        /\ ~LoopOfAtMost(det.records, Len(det.records))
               => det.errors = <<>>

\* the names met from a starting record: walk is the record's name followed
\* by the targets met so far; each further hop goes to the target of the first
\* record named as the last target, for at most n more hops
RECURSIVE WalkFrom(_, _, _)
WalkFrom(records, walk, n) ==
    IF n = 0 THEN walk
    ELSE LET idx == {i \in 1..Len(records) :
                        toLowerCase(records[i].name) = walk[Len(walk)]}
         IN  IF idx = {} THEN walk
             ELSE The({WalkFrom(records, w, n - 1) :
                          w \in {Append(walk,
                                        toLowerCase(records[MinOf(idx)].data))}})

\* the starting record i followed by the targets of its first hops, 10 at most
HopsOf(records, i) ==
    WalkFrom(records, <<toLowerCase(records[i].name), toLowerCase(records[i].data)>>, 9)

\* a name visited before reappears among the hops of record i
Reappears(records, i) ==
    \E walk \in {HopsOf(records, i)} :
        \E k \in 2..Len(walk) : \E j \in 1..(k - 1) : walk[j] = walk[k]

\* the chain of record i ends within its hops: the last target has no record
EndsWithin(records, i) ==
    \E walk \in {HopsOf(records, i)} :
        /\ \A k \in 2..Len(walk) : \A j \in 1..(k - 1) : walk[j] # walk[k]
        /\ \A r \in 1..Len(records) : toLowerCase(records[r].name) # walk[Len(walk)]

\* the names of the starting records from i on whose hops repeat a name
RECURSIVE FlaggedFrom(_, _)
FlaggedFrom(records, i) ==
    IF i > Len(records) THEN <<>>
    ELSE (IF Reappears(records, i) THEN <<toLowerCase(records[i].name)>> ELSE <<>>)
             \o FlaggedFrom(records, i + 1)

\* C37: detectCircularCNAME returns for every list of CNAME records; it pushes
\* one critical issue for each starting record among whose first 10 hops a
\* name visited before (from that record on) reappears, in the order of the
\* records, and none for any other record; a chain length it reports is at
\* most 10; a record whose chain ends within 10 hops gets no issue.
C37_ChainWalk ==
    det.pc = "done" =>
        /\ [j \in 1..Len(det.errors) |-> det.errors[j].recordName]
               = FlaggedFrom(det.records, 1)
        /\ \A j \in 1..Len(det.errors) :
               /\ IsCircularIssue(det.errors[j])
               /\ det.errors[j].chainLength <= 10
        /\ \A i \in 1..Len(det.records) :
               EndsWithin(det.records, i) => CheckCname(det.records, i) = <<>>

\* a ring of 10 records: every record is flagged, at chain length 10
C37_Witness ==
    /\ det.pc = "done"
    /\ det.records = Ring(10)
    /\ Len(det.errors) = 10
    /\ \A j \in 1..10 : det.errors[j].chainLength = 10

(***************************************************************************)
(* DNSErrorDetector: the evaluators over dnsRecords, an object that maps    *)
(* record types to entries; an entry may lack its records list.  An issue   *)
(* carries the fields the code gives it, without the description and the    *)
(* recommendation texts; a message built from a template is its fixed part. *)
(***************************************************************************)
errorTypes ==
    [MISSING_RECORD |-> "missing_record", INVALID_TTL |-> "invalid_ttl",
     CIRCULAR_CNAME |-> "circular_cname", INVALID_MX |-> "invalid_mx",
     MISSING_SECURITY |-> "missing_security",
     PROPAGATION_ISSUE |-> "propagation_issue",
     CONFIGURATION_ERROR |-> "configuration_error"]

severityLevels == [CRITICAL |-> "critical", WARNING |-> "warning", INFO |-> "info"]

\* dnsRecords[type] && dnsRecords[type].records && dnsRecords[type].records.length > 0
HasRecords(dnsRecords, type) ==
    /\ type \in DOMAIN dnsRecords
    /\ "records" \in DOMAIN dnsRecords[type]
    /\ Len(dnsRecords[type].records) > 0

\* dnsRecords[type].records where the evaluator has found it non-empty
RecordsOf(dnsRecords, type) ==
    IF HasRecords(dnsRecords, type) THEN dnsRecords[type].records ELSE <<>>

\* a missing-record issue that is a warning whatever is missing
MissingIssueWarning(severity, message, affectedRecords) ==
    [type |-> errorTypes.MISSING_RECORD, severity |-> severityLevels.WARNING,
     message |-> message, affectedRecords |-> affectedRecords]

MissingIssue(severity, message, affectedRecords) ==
    [type |-> errorTypes.MISSING_RECORD, severity |-> severity,
     message |-> message, affectedRecords |-> affectedRecords]

detectMissingRecords(dnsRecords) ==
    LET hasA == HasRecords(dnsRecords, "A")
        hasAAAA == HasRecords(dnsRecords, "AAAA")
        hasMX == HasRecords(dnsRecords, "MX")
        hasNS == HasRecords(dnsRecords, "NS")
        errors1 ==
            IF ~hasA /\ ~hasAAAA
            THEN <<MissingIssue(severityLevels.CRITICAL, "No A or AAAA records found",
                                <<"A", "AAAA">>)>>
            ELSE <<>>
        warnings1 ==
            IF ~hasA /\ ~hasAAAA THEN <<>>
            ELSE IF ~hasA
            THEN <<MissingIssue(severityLevels.WARNING, "No A records found", <<"A">>)>>
            ELSE IF ~hasAAAA
            THEN <<MissingIssue(severityLevels.INFO, "No AAAA records found", <<"AAAA">>)>>
            ELSE <<>>
        warnings2 ==
            IF ~hasMX
            THEN <<MissingIssue(severityLevels.WARNING, "No MX records found", <<"MX">>)>>
            ELSE <<>>
        errors2 ==
            IF ~hasNS
            THEN <<MissingIssue(severityLevels.CRITICAL, "No NS records found", <<"NS">>)>>
            ELSE <<>>
    IN  (errors1 \o errors2) \o (warnings1 \o warnings2)

\* String.prototype.split(sep) for a one-character separator
Split(str, sep) ==
    The({LET at == {i \in 1..Len(s) : s[i] = sep}
             \* the position of the k-th separator; 0 and Len(s) + 1 at the ends
             Cut(k) == IF k = 0 THEN 0
                       ELSE IF k > Cardinality(at) THEN Len(s) + 1
                       ELSE CHOOSE i \in at : Cardinality({j \in at : j < i}) = k - 1
         IN  [k \in 1..(Cardinality(at) + 1) |->
                 SubSeq(s, Cut(k - 1) + 1, Cut(k) - 1)] : s \in {str}})

TrimStart(str) ==
    The({SubSeq(s, 1 + Cardinality({i \in 1..Len(s) : \A j \in 1..i : s[j] = " "}),
                Len(s)) : s \in {str}})

TrimEnd(str) ==
    The({SubSeq(s, 1, Cardinality({i \in 1..Len(s) : \E j \in i..Len(s) : s[j] # " "}))
            : s \in {str}})

\* String.prototype.trim
Trim(s) == TrimEnd(TrimStart(s))

\* a JavaScript number that is an integer, or NaN
Num(n) == [nan |-> FALSE, n |-> n]
NaN == [nan |-> TRUE, n |-> 0]

HexDigitChars == <<"0","1","2","3","4","5","6","7","8","9","a","b","c","d","e","f">>

\* the value of a digit character in a radix, -1 when it is none
DigitValue(c, radix) ==
    LET idx == {i \in 1..radix : HexDigitChars[i] = LowerChar(c)}
    IN  IF idx = {} THEN 0 - 1 ELSE (CHOOSE i \in idx : TRUE) - 1

RECURSIVE DigitsValue(_, _, _)
\* the number written by the first n characters of s
DigitsValue(s, radix, n) ==
    IF n = 0 THEN 0
    ELSE DigitsValue(s, radix, n - 1) * radix + DigitValue(s[n], radix)

\* the longest run of digits from the front of s; NaN when there is none
ParseDigits(s, radix) ==
    The({IF run = 0 THEN NaN ELSE Num(DigitsValue(s, radix, run)) :
            run \in {Cardinality({n \in 1..Len(s) :
                         \A i \in 1..n : DigitValue(s[i], radix) >= 0})}})

\* parseInt of a string without leading blanks
ParseSigned(s0) ==
    LET negative == s0 # <<>> /\ s0[1] = "-"
        signed == s0 # <<>> /\ s0[1] \in {"-", "+"}
        from == IF signed THEN 2 ELSE 1
        hex == /\ Len(s0) >= from + 1
               /\ s0[from] = "0"
               /\ s0[from + 1] \in {"x", "X"}
        r == The({ParseDigits(digits, IF hex THEN 16 ELSE 10) :
                      digits \in {SubSeq(s0, IF hex THEN from + 2 ELSE from, Len(s0))}})
    IN  The({IF v.nan THEN NaN ELSE IF negative THEN Num(0 - v.n) ELSE v : v \in {r}})

\* parseInt(string) without a radix: leading blanks, a sign, a 0x prefix
parseInt(str) == The({ParseSigned(s0) : s0 \in {TrimStart(str)}})

MXFormatIssue(mxRecord) ==
    [type |-> errorTypes.CONFIGURATION_ERROR, severity |-> severityLevels.CRITICAL,
     message |-> "Invalid MX record format", affectedRecords |-> <<"MX">>,
     recordName |-> mxRecord.name]

MXPriorityIssue(mxRecord, currentValue) ==
    [type |-> errorTypes.CONFIGURATION_ERROR, severity |-> severityLevels.CRITICAL,
     message |-> "Invalid MX priority", affectedRecords |-> <<"MX">>,
     recordName |-> mxRecord.name, currentValue |-> currentValue]

\* a duplicate priority reported as a critical issue
MXDuplicateIssueCritical(mxRecord, priority) ==
    [type |-> errorTypes.CONFIGURATION_ERROR, severity |-> severityLevels.CRITICAL,
     message |-> "Duplicate MX priority", affectedRecords |-> <<"MX">>,
     recordName |-> mxRecord.name, priority |-> priority]

MXDuplicateIssue(mxRecord, priority) ==
    [type |-> errorTypes.CONFIGURATION_ERROR, severity |-> severityLevels.WARNING,
     message |-> "Duplicate MX priority", affectedRecords |-> <<"MX">>,
     recordName |-> mxRecord.name, priority |-> priority]

\* one turn of the loop over the MX records, with mxData split and the
\* priority parsed: the issues it pushes
CheckMXData(mxRecord, mxData, priority, priorities) ==
    IF Len(mxData) < 2 THEN <<MXFormatIssue(mxRecord)>>
    ELSE (IF priority.nan \/ priority.n < 0 \/ priority.n > 65535
          THEN <<MXPriorityIssue(mxRecord, mxData[1])>> ELSE <<>>)
         \o (IF priority \in priorities
             THEN <<MXDuplicateIssue(mxRecord, priority)>> ELSE <<>>)

CheckMX(mxRecord, priorities) ==
    The({CheckMXData(mxRecord, mxData, priority, priorities) :
            mxData \in {Split(mxRecord.data, " ")},
            priority \in {parseInt(Split(mxRecord.data, " ")[1])}})

\* the Set priorities at the turn of record i: the priorities of the
\* earlier records that passed the test of the format
PrioritiesBefore(mxRecords, i) ==
    {parseInt(Split(mxRecords[j].data, " ")[1]) :
        j \in {k \in 1..(i - 1) : Len(Split(mxRecords[k].data, " ")) >= 2}}

RECURSIVE MXFrom(_, _)
MXFrom(mxRecords, i) ==
    IF i > Len(mxRecords) THEN <<>>
    ELSE The({CheckMX(mxRecords[i], priorities) :
                 priorities \in {PrioritiesBefore(mxRecords, i)}})
         \o MXFrom(mxRecords, i + 1)

validateMXRecords(dnsRecords) ==
    IF ~HasRecords(dnsRecords, "MX") THEN <<>>
    ELSE MXFrom(dnsRecords["MX"].records, 1)

\* this.ttlThresholds (seconds)
ttlVeryLow == 60
ttlMinRecommended == 300
ttlVeryHigh == 604800

TTLIssue(severity, message, recordType, record) ==
    [type |-> errorTypes.INVALID_TTL, severity |-> severity, message |-> message,
     affectedRecords |-> <<recordType>>, recordName |-> record.name,
     currentValue |-> record.ttl]

\* the issues analyzeTTL pushes for one record
CheckTTL(recordType, record) ==
    LET ttl == record.ttl
    IN  (IF ttl < ttlVeryLow
         THEN <<TTLIssue(severityLevels.WARNING, "Very low TTL value", recordType, record)>>
         ELSE IF ttl < ttlMinRecommended
         THEN <<TTLIssue(severityLevels.INFO, "Low TTL value", recordType, record)>>
         ELSE <<>>)
        \o (IF ttl > ttlVeryHigh
            THEN <<TTLIssue(severityLevels.INFO, "Very high TTL value", recordType, record)>>
            ELSE <<>>)

RECURSIVE TTLOfRecords(_, _, _)
TTLOfRecords(recordType, records, i) ==
    IF i > Len(records) THEN <<>>
    ELSE CheckTTL(recordType, records[i]) \o TTLOfRecords(recordType, records, i + 1)

RECURSIVE TTLFrom(_, _)
\* Object.entries(dnsRecords): the types in the order in which queryAllRecords
\* fills its results, the order of this.recordTypes
TTLFrom(dnsRecords, k) ==
    IF k > Len(RecordTypeNames) THEN <<>>
    ELSE (IF HasRecords(dnsRecords, RecordTypeNames[k])
          THEN TTLOfRecords(RecordTypeNames[k], dnsRecords[RecordTypeNames[k]].records, 1)
          ELSE <<>>)
         \o TTLFrom(dnsRecords, k + 1)

analyzeTTL(dnsRecords) == TTLFrom(dnsRecords, 1)

(***************************************************************************)
(* validateSecurityRecords and the validators of SPF, DMARC and DKIM        *)
(* records.  TXT data and names are sequences of characters.                *)
(***************************************************************************)
StrSpf1 == <<"v", "=", "s", "p", "f", "1">>
StrDmarc1 == <<"d", "m", "a", "r", "c", "1">>
StrDkim1 == <<"d", "k", "i", "m", "1">>
StrVDmarc1 == <<"v", "=">> \o StrDmarc1
StrVDkim1 == <<"v", "=">> \o StrDkim1
StrDomainkey == <<"_", "d", "o", "m", "a", "i", "n", "k", "e", "y">>
StrAll == <<"a", "l", "l">>
StrNone == <<"n", "o", "n", "e">>
StrQuarantine == <<"q", "u", "a", "r", "a", "n", "t", "i", "n", "e">>
StrReject == <<"r", "e", "j", "e", "c", "t">>

\* the soft-fail terminator alone
terminatorsSoftFail == {<<"~">> \o StrAll}

\* ['all', '~all', '-all', '?all']
terminators == {StrAll, <<"~">> \o StrAll, <<"-">> \o StrAll, <<"?">> \o StrAll}

\* the alternatives of /\b(include:|a:|mx:|exists:|redirect=)/g
lookupNeedles ==
    {<<"i", "n", "c", "l", "u", "d", "e", ":">>, <<"a", ":">>, <<"m", "x", ":">>,
     <<"e", "x", "i", "s", "t", "s", ":">>,
     <<"r", "e", "d", "i", "r", "e", "c", "t", "=">>}

\* \w
WordChars == AlnumChars \cup {"_"}

\* (spfData.match(/\b(include:|a:|mx:|exists:|redirect=)/g) || []).length: a
\* match starts at a word boundary and holds word characters up to its last
\* one, so no two matches overlap
LookupCount(spfData) ==
    Cardinality({i \in 1..Len(spfData) :
        /\ i = 1 \/ spfData[i - 1] \notin WordChars
        /\ \E needle \in lookupNeedles :
               /\ i + Len(needle) - 1 <= Len(spfData)
               /\ SubSeq(spfData, i, i + Len(needle) - 1) = needle})

SecurityIssue(severity, message, recordName) ==
    [type |-> errorTypes.CONFIGURATION_ERROR, severity |-> severity,
     message |-> message, affectedRecords |-> <<"TXT">>, recordName |-> recordName]

validateSPFRecord(spfRecord) ==
    LET spfData == spfRecord.data
        hasFormat == \E normalizedSPF \in {Trim(toLowerCase(spfData))} :
                         Includes(normalizedSPF, StrSpf1)
        hasTerminator == \E term \in terminators : Includes(spfData, term)
        lookupMechanisms == LookupCount(spfData)
    IN  (IF ~hasFormat
         THEN <<SecurityIssue(severityLevels.CRITICAL, "Invalid SPF record format",
                              spfRecord.name) @@ [currentValue |-> spfData]>>
         ELSE <<>>)
        \o (IF ~hasTerminator
            THEN <<SecurityIssue(severityLevels.WARNING,
                                 "SPF record lacks proper termination", spfRecord.name)>>
            ELSE <<>>)
        \o (IF lookupMechanisms > 10
            THEN <<SecurityIssue(severityLevels.CRITICAL,
                                 "SPF record exceeds DNS lookup limit", spfRecord.name)
                       @@ [lookupCount |-> lookupMechanisms]>>
            ELSE <<>>)

\* const [key, value] = pair.split('=').map(s => s.trim()): value is <<>>
\* when the pair has no '='
PairKey(pair) == Trim(Split(pair, "=")[1])
PairValue(pair) ==
    The({IF Len(parts) >= 2 THEN Trim(parts[2]) ELSE <<>> :
            parts \in {Split(pair, "=")}})

\* the object of key-value pairs read at a key: the value of the last pair
\* with that key, a non-empty key and a non-empty value; <<>> for undefined
TagValue(data, key) ==
    The({LET idx == {i \in 1..Len(pairs) :
                        /\ PairKey(Trim(pairs[i])) = key
                        /\ key # <<>>
                        /\ PairValue(Trim(pairs[i])) # <<>>}
         IN  IF idx = {} THEN <<>>
             ELSE PairValue(Trim(pairs[CHOOSE i \in idx : \A j \in idx : j <= i]))
            : pairs \in {Split(data, ";")}})

validateDMARCRecord(dmarcRecord) ==
    LET dmarcData == dmarcRecord.data
        v == TagValue(dmarcData, <<"v">>)
        pol == TagValue(dmarcData, <<"p">>)
        rua == TagValue(dmarcData, <<"r", "u", "a">>)
        ruf == TagValue(dmarcData, <<"r", "u", "f">>)
    IN  (IF v = <<>> \/ toLowerCase(v) # StrDmarc1
         THEN <<SecurityIssue(severityLevels.CRITICAL, "Invalid DMARC version",
                              dmarcRecord.name)>>
         ELSE <<>>)
        \o (IF pol = <<>> \/ pol \notin {StrNone, StrQuarantine, StrReject}
            THEN <<SecurityIssue(severityLevels.CRITICAL, "Invalid or missing DMARC policy",
                                 dmarcRecord.name) @@ [currentPolicy |-> pol]>>
            ELSE <<>>)
        \o (IF pol = StrNone
            THEN <<SecurityIssue(severityLevels.INFO, "DMARC policy set to none",
                                 dmarcRecord.name)>>
            ELSE <<>>)
        \o (IF rua = <<>> /\ ruf = <<>>
            THEN <<SecurityIssue(severityLevels.WARNING,
                                 "No DMARC reporting addresses configured",
                                 dmarcRecord.name)>>
            ELSE <<>>)

\* the length below which a DKIM public key is reported as too short
dkimMinKeyLength == 100

validateDKIMRecord(dkimRecord) ==
    LET dkimData == dkimRecord.data
        v == TagValue(dkimData, <<"v">>)
        key == TagValue(dkimData, <<"p">>)
    IN  (IF v = <<>> \/ toLowerCase(v) # StrDkim1
         THEN <<SecurityIssue(severityLevels.CRITICAL, "Invalid DKIM version",
                              dkimRecord.name)>>
         ELSE <<>>)
        \o (IF key = <<>>
            THEN <<SecurityIssue(severityLevels.CRITICAL, "Missing DKIM public key",
                                 dkimRecord.name)>>
            ELSE IF Len(key) < dkimMinKeyLength
            THEN <<SecurityIssue(severityLevels.WARNING, "DKIM public key appears too short",
                                 dkimRecord.name) @@ [keyLength |-> Len(key)]>>
            ELSE <<>>)

MissingSecurityIssue(severity, message) ==
    [type |-> errorTypes.MISSING_SECURITY, severity |-> severity,
     message |-> message, affectedRecords |-> <<"TXT">>]

RECURSIVE ValidateEach(_, _, _)
\* for (const record of records) issues.push(...this.validate<kind>Record(record))
ValidateEach(kind, records, i) ==
    IF i > Len(records) THEN <<>>
    ELSE (CASE kind = "SPF" -> validateSPFRecord(records[i])
            [] kind = "DMARC" -> validateDMARCRecord(records[i])
            [] kind = "DKIM" -> validateDKIMRecord(records[i]))
         \o ValidateEach(kind, records, i + 1)

IsSPF(record) == \E lower \in {toLowerCase(record.data)} : Includes(lower, StrSpf1)
\* /v=dmarc1/i.test(record.data)
IsDMARC(record) == \E lower \in {toLowerCase(record.data)} : Includes(lower, StrVDmarc1)
IsDomainKey(record) == \E lower \in {toLowerCase(record.name)} : Includes(lower, StrDomainkey)
IsDKIM(record) ==
    \/ IsDomainKey(record)
    \/ \E lower \in {toLowerCase(record.data)} : Includes(lower, StrVDkim1)

validateSecurityRecords(dnsRecords) ==
    IF ~HasRecords(dnsRecords, "TXT")
    THEN <<[type |-> errorTypes.MISSING_SECURITY, severity |-> severityLevels.WARNING,
            message |-> "No TXT records found", affectedRecords |-> <<"TXT">>]>>
    ELSE The({
    LET hasSPF == Len(spfRecords) # 0
        hasDMARC == Len(dmarcRecords) # 0
        hasDKIM == Len(dkimRecords) > 0
        spfIssues ==
            IF Len(spfRecords) = 0
            THEN <<MissingSecurityIssue(severityLevels.WARNING, "No SPF record found")
                       @@ [securityType |-> "SPF"]>>
            ELSE ValidateEach("SPF", spfRecords, 1)
                 \o (IF Len(spfRecords) > 1
                     THEN <<[type |-> errorTypes.CONFIGURATION_ERROR,
                             severity |-> severityLevels.CRITICAL,
                             message |-> "Multiple SPF records found",
                             affectedRecords |-> <<"TXT">>, securityType |-> "SPF",
                             recordCount |-> Len(spfRecords)]>>
                     ELSE <<>>)
        dmarcIssues ==
            IF Len(dmarcRecords) = 0
            THEN <<MissingSecurityIssue(severityLevels.INFO, "DMARC record location note")
                       @@ [securityType |-> "DMARC",
                           expectedLocation |-> "_dmarc.${domain}"]>>
            ELSE ValidateEach("DMARC", dmarcRecords, 1)
        dkimIssues ==
            IF Len(dkimRecords) > 0
            THEN ValidateEach("DKIM", dkimRecords, 1)
            ELSE IF Len(domainKeyRecords) = 0
            THEN <<MissingSecurityIssue(severityLevels.INFO,
                                        "No DKIM records found in current query")
                       @@ [securityType |-> "DKIM"]>>
            ELSE <<>>
        complete ==
            IF hasSPF /\ hasDMARC /\ hasDKIM
            THEN <<MissingSecurityIssue(severityLevels.INFO,
                                        "Complete email security configuration detected")
                       @@ [securityType |-> "COMPLETE"]>>
            ELSE <<>>
    IN  spfIssues \o dmarcIssues \o dkimIssues \o complete
        : spfRecords \in {SelectSeq(dnsRecords["TXT"].records, IsSPF)},
          dmarcRecords \in {SelectSeq(dnsRecords["TXT"].records, IsDMARC)},
          dkimRecords \in {SelectSeq(dnsRecords["TXT"].records, IsDKIM)},
          domainKeyRecords \in {SelectSeq(dnsRecords["TXT"].records, IsDomainKey)}})

\* a mechanism is configured when some issue of its securityType has a type
\* other than missing_security
Configured(securityIssues, securityType) ==
    \E i \in 1..Len(securityIssues) :
        /\ "securityType" \in DOMAIN securityIssues[i]
        /\ securityIssues[i].securityType = securityType
        /\ securityIssues[i].type # errorTypes.MISSING_SECURITY

\* emailSecurity[mechanism].issues
IssuesOfType(securityIssues, securityType) ==
    LET Is(issue) == /\ "securityType" \in DOMAIN issue
                     /\ issue.securityType = securityType
    IN  SelectSeq(securityIssues, Is)

Recommendation(priority, title) ==
    [priority |-> priority, category |-> "email_security", title |-> title]

analyzeSecurityConfiguration(dnsRecords, domain) ==
    The({
    LET spf == Configured(securityIssues, "SPF")
        dmarc == Configured(securityIssues, "DMARC")
        dkim == Configured(securityIssues, "DKIM")
    IN  [domain |-> domain,
         emailSecurity |->
             [spf |-> [configured |-> spf,
                       issues |-> IssuesOfType(securityIssues, "SPF")],
              dmarc |-> [configured |-> dmarc,
                         issues |-> IssuesOfType(securityIssues, "DMARC")],
              dkim |-> [configured |-> dkim,
                        issues |-> IssuesOfType(securityIssues, "DKIM")]],
         recommendations |->
             (IF ~spf THEN <<Recommendation("high", "Configure SPF Record")>> ELSE <<>>)
             \o (IF ~dmarc THEN <<Recommendation("high", "Configure DMARC Record")>>
                 ELSE <<>>)
             \o (IF ~dkim THEN <<Recommendation("medium", "Configure DKIM Record")>>
                 ELSE <<>>),
         overallScore |-> (IF spf THEN 40 ELSE 0) + (IF dmarc THEN 40 ELSE 0)
                          + (IF dkim THEN 20 ELSE 0),
         maxScore |-> 100]
        : securityIssues \in {validateSecurityRecords(dnsRecords)}})

\* the evaluators without validateMXRecords
AllIssuesButMX(dnsRecords) ==
    detectMissingRecords(dnsRecords)
    \o analyzeTTL(dnsRecords)
    \o detectCircularCNAME(RecordsOf(dnsRecords, "CNAME"))
    \o validateSecurityRecords(dnsRecords)

\* the five evaluators, concatenated
AllIssues(dnsRecords) ==
    detectMissingRecords(dnsRecords)
    \o analyzeTTL(dnsRecords)
    \o detectCircularCNAME(RecordsOf(dnsRecords, "CNAME"))
    \o validateMXRecords(dnsRecords)
    \o validateSecurityRecords(dnsRecords)

RECURSIVE Categorize(_, _, _)
\* for (const issue of allIssues) switch (issue.severity) ...
Categorize(allIssues, i, analysis) ==
    IF i > Len(allIssues) THEN analysis
    ELSE LET issue == allIssues[i]
             next ==
                 CASE issue.severity = severityLevels.CRITICAL ->
                          [analysis EXCEPT !.errors = Append(@, issue),
                                           !.summary.criticalErrors = @ + 1]
                   [] issue.severity = severityLevels.WARNING ->
                          [analysis EXCEPT !.warnings = Append(@, issue),
                                           !.summary.warnings = @ + 1]
                   [] issue.severity = severityLevels.INFO ->
                          [analysis EXCEPT !.info = Append(@, issue),
                                           !.summary.infoItems = @ + 1]
                   [] OTHER -> analysis
         IN  Categorize(allIssues, i + 1, next)

analyzeConfiguration(dnsRecords, domain) ==
    LET analysis ==
            [domain |-> domain, errors |-> <<>>, warnings |-> <<>>, info |-> <<>>,
             summary |-> [totalIssues |-> 0, criticalErrors |-> 0, warnings |-> 0,
                          infoItems |-> 0]]
    IN  The({[Categorize(allIssues, 1, analysis)
                 EXCEPT !.summary.totalIssues = Len(allIssues)]
                : allIssues \in {AllIssues(dnsRecords)}})

(***************************************************************************)
(* Specification SpecDetector: the evaluators applied to record sets: every *)
(* combination of presence of A, AAAA, MX and NS, lists of MX records,      *)
(* lists of TXT records, records over a range of TTLs and CNAME loops.      *)
(***************************************************************************)
MaxMX == 3
MaxTXT == 2

DetDomain == <<"a", ".", "b">>
DkimName == <<"s", ".">> \o StrDomainkey \o <<".", "a", ".", "b">>

\* an entry of dnsRecords with a records list, and one without
Entry(records) == [records |-> records]
EntryNoRecords == [error |-> <<"Query", "failed">>]

Rec(type, ttl, data) == DnsRecord(DetDomain, type, ttl, data)

\* each of A, AAAA, MX and NS absent, without a list, with an empty list or
\* with one record
PresenceStates == {"absent", "norecords", "empty", "one"}
PresenceTypes == {"A", "AAAA", "MX", "NS"}

PresenceSet(f) ==
    [t \in {u \in PresenceTypes : f[u] # "absent"} |->
        CASE f[t] = "norecords" -> EntryNoRecords
          [] f[t] = "empty" -> Entry(<<>>)
          [] OTHER -> Entry(<<Rec(t, 3600,
                                  IF t = "MX" THEN <<"1", "0", " ", "m">> ELSE <<"x">>)>>)]

PresenceInputs == {PresenceSet(f) : f \in [PresenceTypes -> PresenceStates]}

\* MX data: well-formed ones, and ones with a token too few or too many, a
\* priority that is no number or out of range
MXDataInputs ==
    {<<"1", "0", " ", "m">>, <<"1", "0", " ", "n">>, <<"2", "0", " ", "m">>,
     <<"0", "1", "0", " ", "m">>, <<"0", " ", "m">>,
     <<"6", "5", "5", "3", "5", " ", "m">>, <<"6", "5", "5", "3", "6", " ", "m">>,
     <<"-", "1", " ", "m">>, <<"x", " ", "m">>, <<"1", "0">>,
     <<"1", "0", " ", "m", " ", "x">>, <<"1", "0", "x", " ", "m">>,
     <<"1", "0", " ">>}

\* a set of MX records only, with a TTL below the recommended minimum
MXSet(datas) ==
    [t \in {"MX"} |->
        Entry([i \in 1..Len(datas) |-> Rec("MX", ttlMinRecommended - 1, datas[i])])]

MXInputs == {MXSet(datas) : datas \in SeqsUpTo(MXDataInputs, MaxMX)}

StrSpfAll == StrSpf1 \o <<" ", "-">> \o StrAll
StrDmarcReject ==
    <<"v", "=", "D", "M", "A", "R", "C", "1", ";", " ", "p", "=">> \o StrReject
        \o <<";", " ", "r", "u", "a", "=", "m">>
StrDmarcNone == StrVDmarc1 \o <<";", "p", "=">> \o StrNone
StrDkimShort == <<"v", "=", "D", "K", "I", "M", "1", ";", " ", "p", "=", "k">>
StrDkimLong ==
    <<"v", "=", "D", "K", "I", "M", "1", ";", "p", "=">>
        \o [i \in 1..dkimMinKeyLength |-> "k"]

\* TXT records: SPF with and without a terminator and in upper case, DMARC,
\* DKIM by its data and by its name, and a record of none of these
TXTRecordInputs ==
    {Rec("TXT", 3600, StrSpfAll),
     Rec("TXT", 3600, StrSpf1),
     Rec("TXT", 3600, <<"V", "=", "S", "P", "F", "1", " ", "~">> \o StrAll),
     Rec("TXT", 3600, StrDmarcReject),
     Rec("TXT", 3600, StrDmarcNone),
     Rec("TXT", 3600, StrDkimShort),
     Rec("TXT", 3600, StrDkimLong),
     DnsRecord(DkimName, "TXT", 3600, <<"p", "=", "k">>),
     Rec("TXT", 3600, <<"h", "i">>)}

TXTSet(records) == [t \in {"TXT"} |-> Entry(records)]

TXTInputs == {TXTSet(records) : records \in SeqsUpTo(TXTRecordInputs, MaxTXT)}

\* TTLs on both sides of each threshold
TTLInputs == {0, ttlVeryLow - 1, ttlVeryLow, ttlMinRecommended - 1, ttlMinRecommended,
              3600, ttlVeryHigh, ttlVeryHigh + 1}

\* A records with ttl aTTL (one or two of them), two NS records, one TXT
\* record with the given data, and optionally a CNAME loop
FullSet(numA, aTTL, nsTTL, txtData, cnames) ==
    [t \in {"A", "NS", "TXT", "CNAME"} |->
        CASE t = "A" -> Entry([i \in 1..numA |-> Rec("A", aTTL, <<"x">>)])
          [] t = "NS" -> Entry(<<Rec("NS", nsTTL, <<"n", "1">>),
                                 Rec("NS", nsTTL, <<"n", "2">>)>>)
          [] t = "TXT" -> Entry(<<Rec("TXT", nsTTL, txtData)>>)
          [] OTHER -> Entry(cnames)]

FullInputs ==
    {FullSet(numA, aTTL, nsTTL, txtData, cnames) :
        numA \in 1..2, aTTL \in TTLInputs, nsTTL \in {ttlVeryLow - 1, 3600},
        txtData \in {StrSpfAll, StrSpf1, StrDmarcNone},
        cnames \in {<<>>,
                    <<DnsRecord(NodeName(1), "CNAME", 3600, NodeName(2)),
                      DnsRecord(NodeName(2), "CNAME", 3600, NodeName(1))>>,
                    <<DnsRecord(<<"a">>, "CNAME", 3600, <<"A">>)>>}}

DnsRecordsInputs == PresenceInputs \cup MXInputs \cup TXTInputs \cup FullInputs

DetectorCall(dnsRecords) ==
    [pc |-> "called", fn |-> "", dnsRecords |-> dnsRecords, result |-> <<>>]

InitDetector ==
    /\ maxRetries = defaultMaxRetries
    /\ timeout = defaultTimeout
    /\ cache = <<>>
    /\ hits = 0
    /\ misses = 0
    /\ now = 0
    /\ q = IdleCall
    /\ stamp = <<>>
    /\ clock = 0
    /\ calls = <<>>
    /\ last = Op("constructor", FALSE)
    /\ ui = InitialUI
    /\ det \in {DetectorCall(d) : d \in DnsRecordsInputs}

\* the call under observation returns
DetectorReturns(fn, result) ==
    /\ det.pc = "called"
    /\ det' = [det EXCEPT !.pc = "done", !.fn = fn, !.result = result]
    /\ UNCHANGED <<maxRetries, timeout, cache, hits, misses, now, q, stamp, clock,
                   calls, last, ui>>

DetectMissingRecords ==
    DetectorReturns("detectMissingRecords", detectMissingRecords(det.dnsRecords))

ValidateMXRecords ==
    DetectorReturns("validateMXRecords", validateMXRecords(det.dnsRecords))

AnalyzeSecurityConfiguration ==
    DetectorReturns("analyzeSecurityConfiguration",
                    analyzeSecurityConfiguration(det.dnsRecords, DetDomain))

AnalyzeConfiguration ==
    DetectorReturns("analyzeConfiguration",
                    analyzeConfiguration(det.dnsRecords, DetDomain))

NextDetector ==
    \/ DetectMissingRecords
    \/ ValidateMXRecords
    \/ AnalyzeSecurityConfiguration
    \/ AnalyzeConfiguration

SpecDetector == InitDetector /\ [][NextDetector]_vars

\* the issues of a list with one severity
WithSeverity(issues, severity) ==
    {i \in 1..Len(issues) : issues[i].severity = severity}

\* the issues of a list that name exactly the given record types
Affecting(issues, affectedRecords) ==
    {i \in 1..Len(issues) : issues[i].affectedRecords = affectedRecords}

\* C24: detectMissingRecords yields exactly: one critical issue referencing
\* A and AAAA when neither has records; otherwise one warning when only A is
\* missing or one info issue when only AAAA is missing; one warning when MX
\* has no records; one critical when NS has no records; and no other issue.
C24_MissingRecords ==
    (det.pc = "done" /\ det.fn = "detectMissingRecords") =>
        LET d == det.dnsRecords
            r == det.result
            hasA == HasRecords(d, "A")
            hasAAAA == HasRecords(d, "AAAA")
            Count(sev, aff) == Cardinality(WithSeverity(r, sev) \cap Affecting(r, aff))
            Bit(b) == IF b THEN 1 ELSE 0
        IN  /\ Count("critical", <<"A", "AAAA">>) = Bit(~hasA /\ ~hasAAAA)
            /\ Count("warning", <<"A">>) = Bit(~hasA /\ hasAAAA)
            /\ Count("info", <<"AAAA">>) = Bit(hasA /\ ~hasAAAA)
            /\ Count("warning", <<"MX">>) = Bit(~HasRecords(d, "MX"))
            /\ Count("critical", <<"NS">>) = Bit(~HasRecords(d, "NS"))
            /\ Len(r) = Bit(~hasA \/ ~hasAAAA) + Bit(~HasRecords(d, "MX"))
                            + Bit(~HasRecords(d, "NS"))
            /\ \A i \in 1..Len(r) : r[i].type = "missing_record"

\* a record set with A records only: one info issue for AAAA, a warning for
\* MX and a critical issue for NS
C24_Witness ==
    /\ det.pc = "done" /\ det.fn = "detectMissingRecords"
    /\ HasRecords(det.dnsRecords, "A")
    /\ ~HasRecords(det.dnsRecords, "AAAA")
    /\ "AAAA" \in DOMAIN det.dnsRecords
    /\ Len(det.result) = 3
    /\ \E i \in 1..3 : det.result[i].severity = "info"

\* some TXT record of the set is of the kind the test recognises
Present(dnsRecords, Test(_)) ==
    \E i \in 1..Len(RecordsOf(dnsRecords, "TXT")) : Test(RecordsOf(dnsRecords, "TXT")[i])

HasRecommendation(report, title) ==
    \E i \in 1..Len(report.recommendations) : report.recommendations[i].title = title

\* C21: analyzeSecurityConfiguration returns overallScore = 40 if an SPF
\* record is present + 40 if a DMARC record is present + 20 if a DKIM record
\* is present, so the score is one of 0, 20, 40, 60, 80, 100 and a set whose
\* TXT records hold a single well-formed SPF record scores at least 40; a
\* mechanism counted as configured gets no recommendation to configure it.
C21_SecurityScore ==
    (det.pc = "done" /\ det.fn = "analyzeSecurityConfiguration") =>
        LET d == det.dnsRecords
            r == det.result
        IN  /\ r.overallScore = (IF Present(d, IsSPF) THEN 40 ELSE 0)
                                + (IF Present(d, IsDMARC) THEN 40 ELSE 0)
                                + (IF Present(d, IsDKIM) THEN 20 ELSE 0)
            /\ r.overallScore \in {0, 20, 40, 60, 80, 100}
            /\ RecordsOf(d, "TXT") = <<Rec("TXT", 3600, StrSpfAll)>>
                   => r.overallScore >= 40
            /\ r.emailSecurity.spf.configured => ~HasRecommendation(r, "Configure SPF Record")
            /\ r.emailSecurity.dmarc.configured
                   => ~HasRecommendation(r, "Configure DMARC Record")
            /\ r.emailSecurity.dkim.configured
                   => ~HasRecommendation(r, "Configure DKIM Record")

\* MX data of the form "priority hostname": two tokens, the first one made
\* of digits with a value in 0..65535, the second one not empty
WellFormedMX(data) ==
    LET tokens == Split(data, " ")
    IN  /\ Len(tokens) = 2
        /\ tokens[1] # <<>>
        /\ \A i \in 1..Len(tokens[1]) : tokens[1][i] \in Range(DigitChars)
        /\ parseInt(tokens[1]).n <= 65535
        /\ tokens[2] # <<>>

MalformedMX(records) == {i \in 1..Len(records) : ~WellFormedMX(records[i].data)}

\* C22: validateMXRecords emits a critical issue for every MX record whose
\* data is not exactly a numeric priority in 0..65535 and a hostname (fewer
\* tokens, more tokens, a non-numeric or out-of-range priority), and no
\* critical issue for a record of exactly that form.
C22_MalformedMXCritical ==
    (det.pc = "done" /\ det.fn = "validateMXRecords") =>
        Cardinality(WithSeverity(det.result, "critical"))
            = Cardinality(MalformedMX(RecordsOf(det.dnsRecords, "MX")))

\* C23: for MX records that are each well-formed, validateMXRecords emits
\* one warning of type configuration_error for every record whose priority
\* occurred in an earlier record, none for pairwise distinct priorities, and
\* never a critical issue for a duplicate priority.
C23_DuplicatePriorityWarning ==
    (det.pc = "done" /\ det.fn = "validateMXRecords") =>
        LET records == RecordsOf(det.dnsRecords, "MX")
            Priority(i) == parseInt(Split(records[i].data, " ")[1]).n
            repeated == {i \in 1..Len(records) : \E j \in 1..(i - 1) : Priority(j) = Priority(i)}
        IN  MalformedMX(records) = {} =>
                /\ Len(det.result) = Cardinality(repeated)
                /\ \A i \in 1..Len(det.result) :
                       /\ det.result[i].severity = "warning"
                       /\ det.result[i].type = "configuration_error"

\* three well-formed records with one priority: two warnings
C23_Witness ==
    /\ det.pc = "done" /\ det.fn = "validateMXRecords"
    /\ Len(RecordsOf(det.dnsRecords, "MX")) = 3
    /\ MalformedMX(RecordsOf(det.dnsRecords, "MX")) = {}
    /\ Len(det.result) = 2
    /\ det.result[1].priority = Num(10)

\* the issues of a list with one severity, in their order
OfSeverity(issues, severity) ==
    LET Is(issue) == issue.severity = severity
    IN  SelectSeq(issues, Is)

\* C25: the report of analyzeConfiguration partitions the concatenated output
\* of the five evaluators by severity with no issue lost or duplicated:
\* errors holds the critical issues, warnings the warning issues, info the
\* info issues, the three counts of the summary are the lengths of the lists
\* and totalIssues is their sum.
C25_ReportPartitionsIssues ==
    (det.pc = "done" /\ det.fn = "analyzeConfiguration") =>
        LET d == det.dnsRecords
            r == det.result
            all == detectMissingRecords(d) \o analyzeTTL(d)
                   \o detectCircularCNAME(RecordsOf(d, "CNAME"))
                   \o validateMXRecords(d) \o validateSecurityRecords(d)
        IN  /\ r.errors = OfSeverity(all, "critical")
            /\ r.warnings = OfSeverity(all, "warning")
            /\ r.info = OfSeverity(all, "info")
            /\ r.summary.criticalErrors = Len(r.errors)
            /\ r.summary.warnings = Len(r.warnings)
            /\ r.summary.infoItems = Len(r.info)
            /\ r.summary.totalIssues = Len(r.errors) + Len(r.warnings) + Len(r.info)
            /\ r.summary.totalIssues = Len(all)

\* a report with issues of all three severities, one of them from
\* validateMXRecords
C25_Witness ==
    /\ det.pc = "done" /\ det.fn = "analyzeConfiguration"
    /\ det.result.errors # <<>>
    /\ det.result.info # <<>>
    /\ validateMXRecords(det.dnsRecords) # <<>>
    /\ \E i \in 1..Len(det.result.warnings) :
           det.result.warnings[i].message = "Duplicate MX priority"

\* the messages of the issues raised against SPF records
SPFMessages ==
    {"No SPF record found", "Invalid SPF record format",
     "SPF record lacks proper termination", "SPF record exceeds DNS lookup limit",
     "Multiple SPF records found"}

\* A records with ttl 3600, two NS records, the single TXT record
\* 'v=spf1 -all' and no other record
IsExampleSet(d) ==
    /\ HasRecords(d, "A")
    /\ \A i \in 1..Len(d["A"].records) : d["A"].records[i].ttl = 3600
    /\ Len(RecordsOf(d, "NS")) = 2
    /\ Len(RecordsOf(d, "TXT")) = 1
    /\ RecordsOf(d, "TXT")[1].data = StrSpfAll
    /\ \A t \in SupportedTypes \ {"A", "NS", "TXT"} : ~HasRecords(d, t)

\* C26: for a set with at least one A record with ttl 3600, no AAAA and no
\* MX records, the single TXT record 'v=spf1 -all' and two NS records,
\* analyzeConfiguration reports zero critical errors, at least one warning
\* (the missing-MX warning) and no issue raised against the SPF record.
C26_ExampleReport ==
    (det.pc = "done" /\ det.fn = "analyzeConfiguration" /\ IsExampleSet(det.dnsRecords)) =>
        LET r == det.result
            issues == r.errors \o r.warnings \o r.info
        IN  /\ r.errors = <<>>
            /\ r.summary.criticalErrors = 0
            /\ r.summary.warnings >= 1
            /\ \E i \in 1..Len(r.warnings) : r.warnings[i].message = "No MX records found"
            /\ \A i \in 1..Len(issues) :
                   /\ issues[i].message \notin SPFMessages
                   /\ "securityType" \in DOMAIN issues[i] => issues[i].securityType # "SPF"

\* the report for such a set, with two A records and NS records of a low TTL
C26_Witness ==
    /\ det.pc = "done" /\ det.fn = "analyzeConfiguration"
    /\ IsExampleSet(det.dnsRecords)
    /\ Len(det.dnsRecords["A"].records) = 2
    /\ det.result.summary.warnings >= 2
    /\ det.result.info # <<>>

(***************************************************************************)
(* Specification SpecDomain: validateDomain applied to strings of up to     *)
(* MaxLabels labels, with and without a trailing dot, and to strings at the *)
(* limits of 63 characters a label and 253 characters a name.               *)
(***************************************************************************)
MaxLabels == 3

LabelOf(n) == [i \in 1..n |-> "a"]

LabelInputs ==
    {<<>>, <<"a">>, <<"-", "a">>, <<"a", "-">>, <<"a", "-", "b">>, <<"A", "1">>,
     <<"a", "_">>, LabelOf(63), LabelOf(64)}

RECURSIVE JoinDots(_)
JoinDots(labels) ==
    IF Len(labels) = 0 THEN <<>>
    ELSE IF Len(labels) = 1 THEN labels[1]
    ELSE labels[1] \o <<".">> \o JoinDots(Tail(labels))

\* names of 253 and of 254 characters made of labels of at most 63
LongNames ==
    {JoinDots(<<LabelOf(63), LabelOf(63), LabelOf(63), LabelOf(n)>>) : n \in 60..63}

DomainStringInputs ==
    LET plain == {JoinDots(labels) : labels \in SeqsUpTo(LabelInputs, MaxLabels)}
                     \cup LongNames
    IN  plain \cup {Append(d, ".") : d \in plain}

InitDomain ==
    /\ maxRetries = defaultMaxRetries
    /\ timeout = defaultTimeout
    /\ cache = <<>>
    /\ hits = 0
    /\ misses = 0
    /\ now = 0
    /\ q = IdleCall
    /\ stamp = <<>>
    /\ clock = 0
    /\ calls = <<>>
    /\ det = IdleDetect
    /\ ui = InitialUI
    /\ last \in {[op |-> "call", domain |-> d, result |-> FALSE] : d \in DomainStringInputs}

\* validateDomain(domain) returns
ValidateDomain ==
    /\ last.op = "call"
    /\ last' = [last EXCEPT !.op = "validateDomain",
                            !.result = validateDomain(last.domain)]
    /\ UNCHANGED <<maxRetries, timeout, cache, hits, misses, now, q, stamp, clock,
                   calls, det, ui>>

NextDomain == ValidateDomain

SpecDomain == InitDomain /\ [][NextDomain]_vars

\* a label of letters, digits and inner hyphens, 1 to 63 characters long
GoodLabel(l) ==
    /\ Len(l) \in 1..63
    /\ \A i \in 1..Len(l) : l[i] \in AlnumChars \cup {"-"}
    /\ l[1] # "-" /\ l[Len(l)] # "-"

\* C27: validateDomain(s) is false if s is empty, if s without one trailing
\* dot is longer than 253 characters, if a label is empty or longer than 63
\* characters, or if a label starts or ends with a hyphen; it is true for
\* every string of at most 253 characters whose labels are each 1 to 63
\* letters, digits or inner hyphens; and validateDomain(s + '.') equals
\* validateDomain(s) for every s that does not end in a dot.
C27_ValidateDomain ==
    last.op = "validateDomain" =>
        LET s == last.domain
            stripped == IF s # <<>> /\ s[Len(s)] = "." THEN SubSeq(s, 1, Len(s) - 1) ELSE s
            labels == Split(stripped, ".")
            own == Split(s, ".")
        IN  /\ s = <<>> => ~last.result
            /\ Len(stripped) > 253 => ~last.result
            /\ (\E i \in 1..Len(labels) : Len(labels[i]) = 0 \/ Len(labels[i]) > 63)
                   => ~last.result
            /\ (\E i \in 1..Len(labels) :
                    labels[i] # <<>> /\ "-" \in {labels[i][1], labels[i][Len(labels[i])]})
                   => ~last.result
            /\ (Len(s) <= 253 /\ \A i \in 1..Len(own) : GoodLabel(own[i])) => last.result
            /\ (s = <<>> \/ s[Len(s)] # ".") => validateDomain(Append(s, ".")) = last.result

\* a valid name of exactly 253 characters, accepted with its trailing dot
C27_Witness ==
    /\ last.op = "validateDomain"
    /\ Len(last.domain) = 254
    /\ last.domain[254] = "."
    /\ last.result

(***************************************************************************)
(* UIController: the debounced validation of the domain input.  The timers  *)
(* of the page are the set ui.timeouts of [id, value, due]; debounceTimers  *)
(* is the entry 'validation' of this.debounceTimers, 0 when there is none.  *)
(***************************************************************************)
validationDelay == 300

\* the timers left by debouncedValidation when it clears none
TimeoutsKept(u) == u.timeouts

\* if (this.debounceTimers.has('validation')) clearTimeout(...)
TimeoutsCleared(u) ==
    IF u.debounceTimers # 0
    THEN {t \in u.timeouts : t.id # u.debounceTimers}
    ELSE u.timeouts

\* debouncedValidation(domain) at the time u.time
debouncedValidation(u, domain) ==
    LET timer == [id |-> u.nextTimer, value |-> domain, due |-> u.time + validationDelay]
    IN  [u EXCEPT !.timeouts = TimeoutsCleared(u) \cup {timer},
                  !.debounceTimers = timer.id,
                  !.nextTimer = @ + 1,
                  !.lastInput = [value |-> domain, at |-> u.time],
                  !.sinceInput = 0]

\* the callback of the timer: validateDomainInput(domain) and
\* this.debounceTimers.delete('validation')
ValidationTimerCallback(u, timer) ==
    [u EXCEPT !.timeouts = @ \ {timer},
              !.debounceTimers = 0,
              !.lastValidation = [value |-> timer.value, at |-> u.time],
              !.sinceInput = @ + 1]

(***************************************************************************)
(* Specification SpecDebounce: input events on the domain field, the timer  *)
(* callbacks and the passing of time.                                       *)
(***************************************************************************)
MaxInputs == 4
UIStep == 100
MaxUITime == 1000

InputValues == {"", "a", "a.b"}

EngineUnchanged ==
    UNCHANGED <<maxRetries, timeout, cache, hits, misses, now, q, stamp, clock,
                calls, last, det>>

\* the 'input' listener of the domain field
InputEvent(value) ==
    /\ ui.nextTimer <= MaxInputs
    /\ ui' = debouncedValidation(ui, value)
    /\ EngineUnchanged

\* a timer that is due runs its callback
ValidationTimerFires ==
    /\ \E timer \in ui.timeouts :
           /\ timer.due <= ui.time
           /\ ui' = ValidationTimerCallback(ui, timer)
    /\ EngineUnchanged

\* time passes, up to the next timer that is due
UITick ==
    /\ ui.time < MaxUITime
    /\ \A timer \in ui.timeouts : timer.due > ui.time
    /\ ui' = [ui EXCEPT !.time =
                  LET dues == {timer.due : timer \in ui.timeouts}
                      next == ui.time + UIStep
                  IN  IF \E d \in dues : d < next
                      THEN CHOOSE d \in dues : \A e \in dues : d <= e
                      ELSE next]
    /\ EngineUnchanged

NextDebounce ==
    \/ \E value \in InputValues : InputEvent(value)
    \/ ValidationTimerFires
    \/ UITick

SpecDebounce == Init /\ [][NextDebounce]_vars

\* C28: input validation is debounced: at most one validation timer is
\* pending at any time, each new input event cancels the pending one (the
\* timer that is pending is the one of the last input event), and validation
\* runs exactly once, for the most recent input value, 300 ms after the last
\* input event of a burst.
C28_Debounced ==
    /\ Cardinality(ui.timeouts) <= 1
    /\ \A timer \in ui.timeouts :
           /\ timer.value = ui.lastInput.value
           /\ timer.due = ui.lastInput.at + 300
           /\ ui.sinceInput = 0
    /\ ui.sinceInput <= 1
    /\ ui.sinceInput = 1 =>
           /\ ui.lastValidation.value = ui.lastInput.value
           /\ ui.lastValidation.at = ui.lastInput.at + 300
    /\ (ui.lastInput.at >= 0 /\ ui.time > ui.lastInput.at + 300) => ui.sinceInput = 1
    /\ (ui.lastInput.at >= 0 /\ ui.timeouts = {}) => ui.sinceInput = 1

\* a burst of three input events within 300 ms, validated once with the
\* value of the last one
C28_Witness ==
    /\ ui.nextTimer = 4
    /\ ui.lastInput.at = 200
    /\ ui.lastInput.value = "a.b"
    /\ ui.sinceInput = 1
    /\ ui.lastValidation = [value |-> "a.b", at |-> 500]

(***************************************************************************)
(* UIController: the analyses.  ui.tasks holds the calls of                 *)
(* handleDomainSubmit, retryFailedRecords and retryRecordType that are at   *)
(* an await; a call runs without interruption from one await to the next.   *)
(***************************************************************************)
\* maxRetries of performDNSAnalysisWithRetry
analysisMaxRetries == 2

Task(fn, domain) == [fn |-> fn, domain |-> domain, pc |-> "await", attempt |-> 1]

RemoveAt(seq, k) == SubSeq(seq, 1, k - 1) \o SubSeq(seq, k + 1, Len(seq))

\* handleDomainSubmit(domain), up to its await
handleDomainSubmit(u, domain) ==
    IF u.isAnalyzing THEN u
    ELSE [u EXCEPT !.currentDomain = domain,
                   !.isAnalyzing = TRUE,
                   !.tasks = Append(@, Task("handleDomainSubmit", domain))]

\* mergeAndRedisplayResults(retryResults); lastMerge records whether the
\* handleDomainSubmit it calls ran
mergeAndRedisplayResults(u) ==
    IF u.currentDomain # "null"
    THEN [handleDomainSubmit(u, u.currentDomain)
             EXCEPT !.lastMerge = IF u.isAnalyzing THEN "ignored" ELSE "ran"]
    ELSE [u EXCEPT !.lastMerge = "nodomain"]

\* the finally block of a call
Finally(u) == [u EXCEPT !.isAnalyzing = FALSE]

\* retryFailedRecords(), up to its await; failedRecordTypes is what
\* getFailedRecordTypes reads from the page
retryFailedRecords(u, failedRecordTypes) ==
    IF u.currentDomain = "null" \/ u.isAnalyzing THEN u
    ELSE IF Len(failedRecordTypes) = 0
    THEN Finally([u EXCEPT !.isAnalyzing = TRUE])
    ELSE [u EXCEPT !.isAnalyzing = TRUE,
                   !.tasks = Append(@, Task("retryFailedRecords", u.currentDomain))]

\* retryRecordType(recordType), up to its await; showRecordTypeLoading hands
\* a selector with :contains() to querySelector, which throws where the
\* pseudo-class is unknown
retryRecordType(u, selectorThrows) ==
    IF u.currentDomain = "null" \/ u.isAnalyzing THEN u
    ELSE IF selectorThrows
    THEN Finally([u EXCEPT !.isAnalyzing = TRUE])
    ELSE [u EXCEPT !.isAnalyzing = TRUE,
                   !.tasks = Append(@, Task("retryRecordType", u.currentDomain))]

\* clearResults(): Reset state
clearResults(u) == [u EXCEPT !.currentDomain = "null", !.isAnalyzing = FALSE]

\* the call at ui.tasks[k] resumes from its await with the outcome of the
\* engine: "results" (some records), "empty" (no records) or "throw"
Resume(u, k, outcome) ==
    LET task == u.tasks[k]
        rest == [u EXCEPT !.tasks = RemoveAt(@, k)]
    IN  CASE task.fn = "handleDomainSubmit" ->
                 IF outcome = "results" \/ (outcome = "empty" /\ task.attempt = analysisMaxRetries)
                 THEN Finally(rest)
                 ELSE IF task.attempt < analysisMaxRetries
                 THEN [u EXCEPT !.tasks[k].pc = "sleep"]
                 ELSE Finally(rest)
          [] task.fn = "retryFailedRecords" ->
                 IF outcome = "throw" THEN Finally(rest)
                 ELSE Finally(mergeAndRedisplayResults(rest))
          [] OTHER -> Finally(rest)

(***************************************************************************)
(* Specification SpecUI: submits, retries and clearResults in every         *)
(* interleaving with the settling of the calls in progress.                 *)
(***************************************************************************)
MaxTasks == 2

UIDomainInputs == {"a.b", "c.d"}
FailedTypesInputs == {<<>>, <<"A", "MX">>}
UIOutcomes == {"results", "empty", "throw"}

\* the 'submit' listener of the form with a valid domain
SubmitEvent(domain) ==
    /\ Len(ui.tasks) < MaxTasks
    /\ ui' = handleDomainSubmit(ui, domain)
    /\ EngineUnchanged

\* the button 'Retry Failed Records'
RetryFailedClick(failedRecordTypes) ==
    /\ Len(ui.tasks) < MaxTasks
    /\ ui' = retryFailedRecords(ui, failedRecordTypes)
    /\ EngineUnchanged

\* the retry button of a record type
RetryTypeClick(selectorThrows) ==
    /\ Len(ui.tasks) < MaxTasks
    /\ ui' = retryRecordType(ui, selectorThrows)
    /\ EngineUnchanged

\* the button 'Clear Results'
ClearClick ==
    /\ ui' = clearResults(ui)
    /\ EngineUnchanged

\* the engine settles the request a call awaits
TaskSettles(k, outcome) ==
    /\ k <= Len(ui.tasks)
    /\ ui.tasks[k].pc = "await"
    /\ ui' = Resume(ui, k, outcome)
    /\ EngineUnchanged

\* await this.sleep(1000 * attempt) is over: the next attempt
TaskSleepElapses(k) ==
    /\ k <= Len(ui.tasks)
    /\ ui.tasks[k].pc = "sleep"
    /\ ui' = [ui EXCEPT !.tasks[k].pc = "await", !.tasks[k].attempt = @ + 1]
    /\ EngineUnchanged

NextUI ==
    \/ \E domain \in UIDomainInputs : SubmitEvent(domain)
    \/ \E types \in FailedTypesInputs : RetryFailedClick(types)
    \/ \E selectorThrows \in BOOLEAN : RetryTypeClick(selectorThrows)
    \/ ClearClick
    \/ \E k \in 1..MaxTasks, outcome \in UIOutcomes : TaskSettles(k, outcome)
    \/ \E k \in 1..MaxTasks : TaskSleepElapses(k)

SpecUI == Init /\ [][NextUI]_vars

\* C29: after retryFailedRecords has re-queried the failed record types, the
\* redisplay triggered by mergeAndRedisplayResults runs a new
\* handleDomainSubmit pass rather than being ignored.
C29_RedisplayRuns == ui.lastMerge \in {"none", "ran"}

\* C30: at most one analysis is in progress at any time, in every
\* interleaving of user actions including clearResults pressed while an
\* analysis awaits the network, and isAnalyzing is true exactly while an
\* analysis is in progress.
C30_OneAnalysis ==
    /\ Len(ui.tasks) <= 1
    /\ ui.isAnalyzing <=> ui.tasks # <<>>


(***************************************************************************)
(* setCache on a key that is present (specification SpecCache).            *)
(***************************************************************************)
\* C31: a setCache on a key that is already in the cache replaces that key's
\* entry and removes no other key, also when the cache holds maxCacheSize
\* (50) entries.
C31_SetPresentKeyReplaces ==
    [][ ( /\ last'.op = "set"
          /\ last'.key \in CacheKeys(cache) )
        => /\ CacheKeys(cache') = CacheKeys(cache)
           /\ MapGet(cache', last'.key).cachedAt = now
      ]_vars


(***************************************************************************)
(* clearCache while a queryAllRecords call waits (specification SpecAll).  *)
(***************************************************************************)
\* C32: after a clearCache the cache stays empty until a queryAllRecords call
\* started after it completes: a call that was waiting for the network when
\* clearCache ran writes nothing into the cleared cache.  Every call that
\* passes validation counts as a hit or a miss when it starts and clearCache
\* resets both counters, so while both are 0 no call has started since the
\* last clearCache and the cache is empty.
C32_ClearCacheHolds ==
    hits + misses = 0 => cache = <<>>


(***************************************************************************)
(* The hit and miss counters (specification SpecStats): queryAllRecords,   *)
(* querySpecificRecords and queryDNS calls on one engine, their requests   *)
(* settling, and clearCache at any moment.                                 *)
(***************************************************************************)
StatsNetInputs == {"up", "down"}

\* the request of the queryDNS call is answered, or refused with 404
StatsFetchOutcomes ==
    {JsonOutcome(0, AnswerFor(q.domain, q.recordType, 300)),
     HttpOutcome(404, StatusText(404))}

\* a request of the queryAllRecords call in progress settles
StatsAllFetchSettles(i) ==
    /\ CallOpen
    /\ Current.pc = "batch"
    /\ AllFetchSettles(i)

\* a request of the querySpecificRecords call in progress settles
StatsSpecificFetchSettles(i) ==
    /\ CallOpen
    /\ Current.pc = "all"
    /\ SpecificFetchSettles(i)

NextStats ==
    \/ \E d \in {DomainLower, DomainMixed, DomainHyphen}, n \in StatsNetInputs :
          CallQueryAllRecords(d, "cloudflare", n)
    \/ \E d \in {DomainLower, DomainHyphen}, n \in StatsNetInputs :
          CallQuerySpecific(d, <<"MX", "TXT">>, n)
    \/ \E d \in {DomainLower, DomainHyphen} : CallQueryDNS(d, "A", "cloudflare")
    \/ \E i \in 1..batchSize : StatsAllFetchSettles(i)
    \/ \E i \in 1..batchSize : StatsSpecificFetchSettles(i)
    \/ \E o \in StatsFetchOutcomes : FetchSettles(o)
    \/ ClearCache

SpecStats == Init /\ [][NextStats]_vars

\* C33: hits + misses is the number of queryAllRecords calls that passed the
\* validation of the domain since construction or the last clearCache: both
\* counters start at 0, each such call adds 1 to exactly one of them when it
\* is made (whether or not it raises later), no other step of a call, no
\* queryDNS and no querySpecificRecords changes them, and clearCache empties
\* the cache and sets both to 0.
C33_CountersCountCalls ==
    /\ hits = 0 /\ misses = 0
    /\ [][ /\ last'.op = "queryAllRecords"
              => LET c == calls'[Len(calls')]
                 IN IF validateDomain(c.domain)
                    THEN \/ hits' = hits + 1 /\ misses' = misses
                         \/ hits' = hits /\ misses' = misses + 1
                    ELSE hits' = hits /\ misses' = misses
           /\ last'.op = "clearCache"
              => cache' = <<>> /\ hits' = 0 /\ misses' = 0
           /\ last'.op \notin {"queryAllRecords", "clearCache"}
              => hits' = hits /\ misses' = misses
         ]_vars

\* a queryAllRecords call was counted as a miss and has raised, a later one
\* for the same domain was counted as a miss too, and a queryDNS call has
\* settled; nothing was counted but the two calls
C33_Witness ==
    /\ Len(calls) = 2
    /\ \A k \in 1..2 : /\ "batch" \in DOMAIN calls[k]
                       /\ validateDomain(calls[k].domain)
    /\ calls[1].out.kind = "throw"
    /\ q.pc = "done"
    /\ hits = 0 /\ misses = 2


(***************************************************************************)
(* performDNSAnalysisWithRetry on the engine (specification SpecAnalysis): *)
(* the UIController's analysis calls queryAllRecords of the DNSQueryEngine, *)
(* whose requests settle one by one.                                       *)
(***************************************************************************)
\* the domain typed into the form, as the engine reads it
EngineDomain(domain) ==
    CASE domain = "a.b" -> DomainLower
      [] domain = "c.d" -> <<"c", ".", "d">>

\* what the awaited queryAllRecords call hands to performDNSAnalysisWithRetry:
\* it throws, or hasAnyResults is true ("results") or false ("empty")
AnalysisOutcome(call) ==
    IF call.out.kind = "throw" THEN "throw"
    ELSE IF \E t \in DOMAIN call.out.data : Len(call.out.data[t].records) > 0
    THEN "results"
    ELSE "empty"

\* this.dnsEngine.queryAllRecords(domain) at time t, the controller becoming u
QueryAllFromUI(domain, net, t, u) ==
    /\ LET call == queryAllRecords(domain, "cloudflare", cache, t, maxRetries, net)
           looked == IF validateDomain(domain)
                     THEN getFromCache(cache, CacheKey(domain), t).cache
                     ELSE cache
       IN /\ calls' = Append(calls, call)
          /\ cache' = CacheAfterCall(call, looked, t)
          /\ stamp' = StampAfterCall(call, looked)
          /\ clock' = ClockAfterCall(call, looked)
          /\ hits' = IF call.known THEN hits + 1 ELSE hits
          /\ misses' = IF validateDomain(domain) /\ ~call.known
                       THEN misses + 1 ELSE misses
          /\ last' = Op("queryAllRecords", call.out.kind = "throw")
    /\ now' = t
    /\ ui' = u
    /\ UNCHANGED <<maxRetries, timeout, q, det>>

\* the form is submitted at most this many times
MaxAnalyses == 2

AnalysisNetInputs == {"up", "nxdomain", "down"}

\* the 'submit' listener: handleDomainSubmit, performDNSAnalysisWithRetry
\* and the first queryAllRecords, up to its first wait
AnalysisSubmit(domain, net) ==
    /\ ~ui.isAnalyzing
    /\ Len(calls) + analysisMaxRetries <= MaxAnalyses * analysisMaxRetries
    /\ calls # <<>> => net = calls[1].net
    /\ QueryAllFromUI(EngineDomain(domain), net, now, handleDomainSubmit(ui, domain))

\* a DoH request of the queryAllRecords call in progress settles
AnalysisFetchSettles(i) ==
    /\ ui.tasks # <<>>
    /\ AllFetchSettles(i)

\* performDNSAnalysisWithRetry resumes from `await queryAllRecords(domain)`
AnalysisResumes ==
    /\ ui.tasks # <<>>
    /\ ui.tasks[1].pc = "await"
    /\ Current.pc = "done"
    /\ ui' = Resume(ui, 1, AnalysisOutcome(Current))
    /\ EngineUnchanged

\* await this.sleep(1000 * attempt) is over, the timer firing on time: the
\* next turn of the loop calls queryAllRecords again
AnalysisSleepElapses ==
    /\ ui.tasks # <<>>
    /\ ui.tasks[1].pc = "sleep"
    /\ QueryAllFromUI(EngineDomain(ui.tasks[1].domain), Current.net,
                      now + 1000 * ui.tasks[1].attempt,
                      [ui EXCEPT !.tasks[1].pc = "await", !.tasks[1].attempt = @ + 1])

NextAnalysis ==
    \/ \E domain \in UIDomainInputs, net \in AnalysisNetInputs :
          AnalysisSubmit(domain, net)
    \/ \E i \in 1..batchSize : AnalysisFetchSettles(i)
    \/ AnalysisResumes
    \/ AnalysisSleepElapses

SpecAnalysis == Init /\ [][NextAnalysis]_vars

\* C34: performDNSAnalysisWithRetry calls queryAllRecords at most twice, and
\* when the first call has returned a RecordSet without any record, the
\* second call sends new DoH requests: it is not answered from the cache
\* entry the first call wrote.
C34_RetryQueriesAfresh ==
    [][ Len(calls') = Len(calls) + 1
        => LET task == ui'.tasks[1]
               call == calls'[Len(calls')]
           IN /\ task.attempt \in 1..2
              /\ ( /\ task.attempt = 2
                   /\ Current.out.kind = "return"
                   /\ AnalysisOutcome(Current) = "empty" )
                 => /\ ~call.out.fromCache
                    /\ call.pc = "batch"
                    /\ \A i \in 1..Len(call.slots) : call.slots[i].inflight = 1
      ]_vars


(***************************************************************************)
(* The failure entries of RecordSets (specification SpecFailures):         *)
(* queryAllRecords and querySpecificRecords calls under networks on which   *)
(* queries fail in different ways, with setMaxRetries between the calls.    *)
(***************************************************************************)
FailuresNetInputs == {"partial", "down"}

\* the backoff sleep of a queryDNS of the queryAllRecords call is over
FailuresAllSleepElapses(i) ==
    /\ CallOpen
    /\ Current.pc = "batch"
    /\ AllSleepElapses(i)

\* the backoff sleep of a queryDNS of the querySpecificRecords call is over
FailuresSpecificSleepElapses(i) ==
    /\ CallOpen
    /\ Current.pc = "all"
    /\ SpecificSleepElapses(i)

NextFailures ==
    \/ \E n \in FailuresNetInputs : CallQueryAllRecords(DomainLower, "cloudflare", n)
    \/ \E types \in {<<"MX", "TXT">>, <<"A", "SOA", "PTR">>}, n \in FailuresNetInputs :
          CallQuerySpecific(DomainLower, types, n)
    \/ \E i \in 1..batchSize : StatsAllFetchSettles(i)
    \/ \E i \in 1..batchSize : StatsSpecificFetchSettles(i)
    \/ \E i \in 1..batchSize : FailuresAllSleepElapses(i)
    \/ \E i \in 1..batchSize : FailuresSpecificSleepElapses(i)
    \/ \E n \in {0, 1} : SetMaxRetriesBetween(n)

SpecFailures == Init /\ [][NextFailures]_vars

\* C35: with maxRetries at least 1, every failure entry that queryAllRecords
\* or querySpecificRecords builds for a record type whose queryDNS threw has
\* retryable = true, whatever made the providers fail (a 4xx response
\* included): the message it is classified by begins with 'All DNS providers
\* failed'.
C35_FailuresRetryable ==
    [][ \A k \in 1..Len(calls') :
          LET c == calls'[k]
          IN ( /\ c.pc = "done"
               /\ k > Len(calls) \/ calls[k].pc # "done"
               /\ c.out.kind = "return"
               /\ maxRetries >= 1 )
             => \A t \in DOMAIN c.out.data :
                   c.out.data[t].source = "failed"
                   => /\ c.out.data[t].retryable = "true"
                      /\ SubSeq(c.out.data[t].originalError, 1, 4)
                            = <<"All", "DNS", "providers", "failed">>
      ]_vars

\* with maxRetries 1, a queryAllRecords call and a querySpecificRecords call
\* have both returned a failure entry for MX, whose queries were refused with
\* 400 by every provider, marked retryable
C35_Witness ==
    /\ maxRetries = 1
    /\ Len(calls) = 2
    /\ "batch" \in DOMAIN calls[1]
    /\ "types" \in DOMAIN calls[2]
    /\ \A k \in 1..2 :
          /\ calls[k].out.kind = "return"
          /\ "MX" \in DOMAIN calls[k].out.data
          /\ calls[k].out.data["MX"].source = "failed"
          /\ calls[k].out.data["MX"].retryable = "true"
          /\ Includes(calls[k].out.data["MX"].originalError,
                      <<"DoH", "API", "request", "failed", ":", "4", "0", "0">>)


(***************************************************************************)
(* Termination (specification SpecLive): maxRetries is set, then either a  *)
(* queryDNS call or queryAllRecords calls one after the other are made.    *)
(* Every                                                                   *)
(* DoH request in flight settles in the end (with an answer, a failure or   *)
(* the abort of its timeout), and every backoff sleep is over in the end.   *)
(***************************************************************************)
LiveNetInputs == {"up", "partial", "down", "slow"}

\* setMaxRetries(n) before the first call
LiveSetMaxRetries(n) ==
    /\ calls = <<>>
    /\ SetMaxRetries(n)

\* queryDNS(domain, 'A', preferredProvider), no queryAllRecords call made yet
LiveCallQueryDNS(domain, preferredProvider) ==
    /\ calls = <<>>
    /\ CallQueryDNS(domain, "A", preferredProvider)

\* queryAllRecords(domain), no queryDNS call made
LiveCallQueryAllRecords(domain, net) ==
    /\ q.pc = "idle"
    /\ CallQueryAllRecords(domain, "cloudflare", net)

\* the request of the queryDNS call settles
LiveFetchSettles == \E o \in FetchOutcomes(q.domain, q.recordType) : FetchSettles(o)

NextLive ==
    \/ \E n \in {0, 1, 2} : LiveSetMaxRetries(n)
    \/ \E p \in {"cloudflare", "quad9", "opendns", "constructor"} :
          LiveCallQueryDNS(DomainLower, p)
    \/ \E n \in LiveNetInputs : LiveCallQueryAllRecords(DomainLower, n)
    \/ LiveFetchSettles
    \/ SleepElapses
    \/ \E i \in 1..batchSize : AllFetchSettles(i)
    \/ \E i \in 1..batchSize : AllSleepElapses(i)

SpecLive ==
    /\ Init
    /\ [][NextLive]_vars
    /\ WF_vars(LiveFetchSettles)
    /\ WF_vars(SleepElapses)
    /\ \A i \in 1..batchSize : WF_vars(AllFetchSettles(i)) /\ WF_vars(AllSleepElapses(i))

\* no provider appears twice in the providers handed to queryWithRetry
TriedOnce(c) == \A i, j \in 1..Len(c.tried) : c.tried[i] = c.tried[j] => i = j

\* the DoH requests a queryAllRecords call has issued so far
RequestsOf(call) == call.requests + SumTotal(call.slots, 1)

\* C36: provided every DoH request settles in the end, every queryDNS call
\* settles, after at most 3 x maxRetries requests, and every queryAllRecords
\* call settles, after at most 9 x 3 x maxRetries requests; no provider is
\* tried twice by a queryDNS call, and a settled call issues no request.
C36_CallsSettle ==
    /\ [](/\ q.total <= 3 * q.maxRetries
          /\ TriedOnce(q)
          /\ Settled(q) => q.inflight = 0
          /\ \A k \in 1..Len(calls) :
                /\ RequestsOf(calls[k]) <= 9 * 3 * maxRetries
                /\ \A i \in 1..Len(calls[k].slots) :
                      /\ calls[k].slots[i].total <= 3 * maxRetries
                      /\ TriedOnce(calls[k].slots[i]))
    /\ [][ /\ q.pc = "done" => q' = q
           /\ \A k \in 1..Len(calls) : calls[k].pc = "done" => calls'[k] = calls[k]
         ]_vars
    /\ (q.pc \in {"fetch", "sleep"}) ~> (q.pc = "done")
    /\ CallOpen ~> ~CallOpen

\* with maxRetries 2, a queryAllRecords call has returned a RecordSet after
\* 23 requests: its queryDNS calls for A and for PTR have thrown after 3 x 2
\* requests each, those for MX and TXT after 3 requests each, and each other
\* one has returned after 1 request
C36_Witness ==
    /\ maxRetries = 2
    /\ calls # <<>>
    /\ Current.pc = "done"
    /\ Current.out.kind = "return"
    /\ Current.failedTypes = {"A", "PTR", "MX", "TXT"}
    /\ Current.requests = 23

(***************************************************************************)
(* DNSErrorDetector.getIssueSummary applied to the reports of              *)
(* analyzeConfiguration (specification SpecSummary).  A summary has the    *)
(* buckets critical, warnings and info; the categories of a bucket map an  *)
(* issue type to the list of the issues filed under it.                    *)
(***************************************************************************)
UndefinedCategoriesTypeError ==
    Err("TypeError", <<"Cannot", "read", "properties", "of", "undefined">>)

\* summary[severity].categories[category].push(issue), after the list has
\* been created where there was none
FileIssue(categories, issue) ==
    IF issue.type \in DOMAIN categories
    THEN [categories EXCEPT ![issue.type] = Append(@, issue)]
    ELSE [t \in (DOMAIN categories) \cup {issue.type} |->
             IF t = issue.type THEN <<issue>> ELSE categories[t]]

\* the loop over allIssues from its i-th issue on: summary[severity] is
\* undefined for a severity that is no key of summary, and reading its
\* categories throws
RECURSIVE SummarizeFrom(_, _, _)
SummarizeFrom(allIssues, i, summary) ==
    IF i > Len(allIssues) THEN [kind |-> "return", summary |-> summary]
    ELSE IF allIssues[i].severity \notin DOMAIN summary
    THEN [kind |-> "throw", error |-> UndefinedCategoriesTypeError]
    ELSE The({SummarizeFrom(allIssues, i + 1, next) :
                 next \in {[summary EXCEPT ![allIssues[i].severity].categories =
                                              FileIssue(@, allIssues[i])]}})

getIssueSummary(analysisResult) ==
    LET summary ==
            [critical |-> [count |-> analysisResult.summary.criticalErrors,
                           categories |-> <<>>],
             warnings |-> [count |-> analysisResult.summary.warnings,
                           categories |-> <<>>],
             info |-> [count |-> analysisResult.summary.infoItems,
                       categories |-> <<>>]]
    IN  SummarizeFrom((analysisResult.errors \o analysisResult.warnings)
                          \o analysisResult.info, 1, summary)

\* getIssueSummary is called with the report of the analysis
GetIssueSummary ==
    /\ det.pc = "done"
    /\ det.fn = "analyzeConfiguration"
    /\ det' = [pc |-> "summary", fn |-> "getIssueSummary",
               dnsRecords |-> det.dnsRecords, report |-> det.result,
               result |-> getIssueSummary(det.result)]
    /\ UNCHANGED <<maxRetries, timeout, cache, hits, misses, now, q, stamp, clock,
                   calls, last, ui>>

NextSummary ==
    \/ AnalyzeConfiguration
    \/ GetIssueSummary

SpecSummary == InitDetector /\ [][NextSummary]_vars

\* the bucket of the summary for a severity
BucketOf(severity) ==
    CASE severity = "critical" -> "critical"
      [] severity = "warning" -> "warnings"
      [] OTHER -> "info"

\* the issues filed in a bucket, over all its categories
NumFiled(bucket) ==
    LET F[T \in SUBSET (DOMAIN bucket.categories)] ==
            IF T = {} THEN 0
            ELSE LET t == CHOOSE u \in T : TRUE
                 IN  Len(bucket.categories[t]) + F[T \ {t}]
    IN  F[DOMAIN bucket.categories]

\* C38: for every report of analyzeConfiguration, getIssueSummary returns a
\* summary in which each issue of the report is filed in the bucket of its
\* severity under the category of its type, every filed issue has the
\* severity of its bucket and the type of its category, and each bucket holds
\* as many issues as its count says.
C38_SummaryFilesIssues ==
    det.pc = "summary" =>
        /\ det.result.kind = "return"
        /\ \A list \in {det.report.errors, det.report.warnings, det.report.info} :
               \A i \in 1..Len(list) :
                  \E bucket \in {det.result.summary[BucketOf(list[i].severity)]} :
                     /\ list[i].type \in DOMAIN bucket.categories
                     /\ \E j \in 1..Len(bucket.categories[list[i].type]) :
                            bucket.categories[list[i].type][j] = list[i]
        /\ \A b \in {"critical", "warnings", "info"} :
               \E bucket \in {det.result.summary[b]} :
                  /\ NumFiled(bucket) = bucket.count
                  /\ \A t \in DOMAIN bucket.categories :
                         \A j \in 1..Len(bucket.categories[t]) :
                            /\ bucket.categories[t][j].type = t
                            /\ BucketOf(bucket.categories[t][j].severity) = b

\* getIssueSummary returns exactly for the reports without a warning
SummaryReturnsIffNoWarning ==
    det.pc = "summary" =>
        (det.result.kind = "return" <=> det.report.warnings = <<>>)

(***************************************************************************)
(* Specification SpecParse: parseDoHResponse applied to DoH JSON bodies:    *)
(* every status from 0 to 6 and a larger one, Answer sections of up to      *)
(* MaxAnswers entries of three numeric types, and four requested types.     *)
(***************************************************************************)
MaxAnswers == 3

ParseStatusInputs == (0..6) \cup {23}
ParseTypeInputs == {"A", "CNAME", "MX", "TXT"}

ParseAnswerInputs ==
    {AnswerRecord(DomainLower, type, 300, data) :
        type \in {1, 5, 15}, data \in {<<"x">>, <<"y">>}}

ParseInputs ==
    {[pc |-> "called", response |-> JsonOutcome(Status, Answer),
      recordType |-> recordType, result |-> NoResult] :
        Status \in ParseStatusInputs,
        Answer \in SeqsUpTo(ParseAnswerInputs, MaxAnswers),
        recordType \in ParseTypeInputs}

InitParse ==
    /\ maxRetries = defaultMaxRetries
    /\ timeout = defaultTimeout
    /\ cache = <<>>
    /\ hits = 0
    /\ misses = 0
    /\ now = 0
    /\ q = IdleCall
    /\ stamp = <<>>
    /\ clock = 0
    /\ calls = <<>>
    /\ last = Op("constructor", FALSE)
    /\ ui = InitialUI
    /\ det \in ParseInputs

\* parseDoHResponse(response, domain, recordType, provider) returns
ParseDoHResponse ==
    /\ det.pc = "called"
    /\ det' = [det EXCEPT !.pc = "done",
                          !.result = parseDoHResponse(det.response, DomainLower,
                                                      det.recordType, "cloudflare")]
    /\ UNCHANGED <<maxRetries, timeout, cache, hits, misses, now, q, stamp, clock,
                   calls, last, ui>>

NextParse == ParseDoHResponse

SpecParse == InitParse /\ [][NextParse]_vars

\* the positions of the Answer entries of the requested type's code
Matching(Answer, code) == {i \in 1..Len(Answer) : Answer[i].type = code}

\* the k-th of a set of positions, in rising order
NthOf(M, k) == CHOOSE i \in M : Cardinality({j \in M : j <= i}) = k

\* C39: a result of parseDoHResponse for a non-zero status has no records and
\* carries the label of the status as its error (Format Error, Server
\* Failure, Name Error (NXDOMAIN), Not Implemented, Refused for 1 to 5, and
\* DNS Error (Status: n) for any other n); a result for status 0 has no error,
\* and its records are the Answer entries whose type is the code of the
\* requested type, in their order, with the requested type as their type.
C39_ParsedResult ==
    det.pc = "done" =>
        \E Status \in {det.response.Status}, records \in {det.result.records} :
            /\ Status # 0 =>
                  /\ records = <<>>
                  /\ det.result.error # <<>>
                  /\ Status = 1 => det.result.error = <<"Format", "Error">>
                  /\ Status = 2 => det.result.error = <<"Server", "Failure">>
                  /\ Status = 3 => Includes(det.result.error, <<"NXDOMAIN">>)
                  /\ Status = 4 => det.result.error = <<"Not", "Implemented">>
                  /\ Status = 5 => det.result.error = <<"Refused">>
                  /\ Status > 5 =>
                        det.result.error =
                            <<"DNS", "Error", "(", "Status", ":">> \o Digits(Status)
                                \o <<")">>
            /\ Status = 0 =>
                  \E M \in {Matching(det.response.Answer, recordTypes(det.recordType))} :
                     /\ det.result.error = <<>>
                     /\ Len(records) = Cardinality(M)
                     /\ \A k \in 1..Len(records) :
                            \E rec \in {det.response.Answer[NthOf(M, k)]} :
                               records[k] = [name |-> rec.name, type |-> det.recordType,
                                             ttl |-> rec.TTL, data |-> rec.data]

\* an A query whose answer has an A record, a CNAME record and another A
\* record: the result holds the two A records in that order
C39_Witness ==
    /\ det.pc = "done"
    /\ det.response.Status = 0
    /\ det.recordType = "A"
    /\ det.response.Answer =
           <<AnswerRecord(DomainLower, 1, 300, <<"y">>),
             AnswerRecord(DomainLower, 5, 300, <<"x">>),
             AnswerRecord(DomainLower, 1, 300, <<"x">>)>>
    /\ Len(det.result.records) = 2
    /\ det.result.records[1].data = <<"y">>
    /\ det.result.records[2].data = <<"x">>

(***************************************************************************)
(* Specification SpecSetters: setTimeout and setMaxRetries called with      *)
(* JavaScript numbers, integers and NaN, on an engine whose cache is set    *)
(* and read in between.  In this specification timeout and maxRetries hold  *)
(* JavaScript numbers (Num(n) or NaN).                                      *)
(***************************************************************************)
\* the cache is set at most this many times
MaxSets == 2
\* queryAllRecords is answered from the cache at most this many times
MaxHits == 2

\* a < b on JavaScript numbers: false when either one is NaN
JsLess(a, b) == ~a.nan /\ ~b.nan /\ a.n < b.n

SetterInputs ==
    {Num(n) : n \in {0 - 1, 0, 5, 10, 11, 999, 1000, 5000, 30000, 30001}}
        \cup {NaN}

\* history: a call of a setter, with its argument
SetterOp(name, threw, arg) ==
    [op |-> name, threw |-> threw, status |-> 0, key |-> <<>>, found |-> FALSE,
     arg |-> arg]

InitSetters ==
    /\ maxRetries = Num(defaultMaxRetries)
    /\ timeout = Num(defaultTimeout)
    /\ cache = <<>>
    /\ hits = 0
    /\ misses = 0
    /\ now = 0
    /\ q = IdleCall
    /\ stamp = <<>>
    /\ clock = 0
    /\ calls = <<>>
    /\ last = Op("constructor", FALSE)
    /\ det = IdleDetect
    /\ ui = InitialUI

\* setTimeout(timeoutMs)
SetTimeoutTo(timeoutMs) ==
    /\ IF JsLess(timeoutMs, Num(1000)) \/ JsLess(Num(30000), timeoutMs)
       THEN /\ last' = SetterOp("setTimeout", TRUE, timeoutMs)
            /\ UNCHANGED timeout
       ELSE /\ last' = SetterOp("setTimeout", FALSE, timeoutMs)
            /\ timeout' = timeoutMs
    /\ UNCHANGED <<maxRetries, cache, hits, misses, now, q, stamp, clock, calls,
                   det, ui>>

\* setMaxRetries(maxRetries)
SetMaxRetriesTo(n) ==
    /\ IF JsLess(n, Num(0)) \/ JsLess(Num(10), n)
       THEN /\ last' = SetterOp("setMaxRetries", TRUE, n)
            /\ UNCHANGED maxRetries
       ELSE /\ last' = SetterOp("setMaxRetries", FALSE, n)
            /\ maxRetries' = n
    /\ UNCHANGED <<timeout, cache, hits, misses, now, q, stamp, clock, calls,
                   det, ui>>

\* a RecordSet is stored
SettersCacheSet(i) ==
    /\ clock < MaxSets
    /\ CacheSet(i, 0)

\* queryAllRecords for a domain whose entry is in the cache: the entry is
\* returned and the hit is counted
SettersCachedCall(i) ==
    /\ hits < MaxHits
    /\ getFromCache(cache, CacheKey(AllDomains[i]), now).found
    /\ hits' = hits + 1
    /\ last' = Op("queryAllRecords", FALSE)
    /\ UNCHANGED <<maxRetries, timeout, cache, misses, now, q, stamp, clock, calls,
                   det, ui>>

NextSetters ==
    \/ \E v \in SetterInputs : SetTimeoutTo(v)
    \/ \E v \in SetterInputs : SetMaxRetriesTo(v)
    \/ \E i \in {1, 2} : SettersCacheSet(i)
    \/ \E i \in {1, 2} : SettersCachedCall(i)

SpecSetters == InitSetters /\ [][NextSetters]_vars

\* a JavaScript number that lies in [lo, hi]
InRange(v, lo, hi) == ~v.nan /\ lo <= v.n /\ v.n <= hi

\* the last step was a setter called with a value outside its range
OutOfRangeCall(op) ==
    \/ op.op = "setTimeout" /\ ~InRange(op.arg, 1000, 30000)
    \/ op.op = "setMaxRetries" /\ ~InRange(op.arg, 0, 10)

\* C40: whatever setTimeout and setMaxRetries calls are made, the timeout
\* stays within 1000..30000 and maxRetries within 0..10; a call with a value
\* outside the range raises and leaves both settings, the cache and the
\* counters as they were.
C40_SettersKeepRange ==
    /\ [](InRange(timeout, 1000, 30000) /\ InRange(maxRetries, 0, 10))
    /\ [][ OutOfRangeCall(last')
               => /\ last'.threw
                  /\ UNCHANGED <<timeout, maxRetries, cache, hits, misses>> ]_vars

\* the same for the calls whose argument is not NaN: a setting that is a
\* number lies in its range, and such a call with a value outside the range
\* raises and changes nothing
SettersKeepRangeForIntegers ==
    /\ [](/\ timeout.nan \/ InRange(timeout, 1000, 30000)
          /\ maxRetries.nan \/ InRange(maxRetries, 0, 10))
    /\ [][ (OutOfRangeCall(last') /\ ~last'.arg.nan)
               => /\ last'.threw
                  /\ UNCHANGED <<timeout, maxRetries, cache, hits, misses>> ]_vars
====
